---------------------------- MODULE Spec2Model ----------------------------
(***************************************************************************)
(* Model of the authenticated request engine of my_api_client              *)
(* (src/internal/client): the token store guarded by the client mutex,     *)
(* authenticate, getValidToken, forceTokenRefresh, the lenient dispatch    *)
(* path Request, the strict dispatch path doRequest /                      *)
(* doRequestWithHeaders and the administrative setter SetInstanceURL, run  *)
(* by concurrent callers against one APIClient.                            *)
(*                                                                         *)
(* Time is counted in minutes.  Strings stand for themselves; an HTTP      *)
(* body is a record giving what encoding/json makes of it.                 *)
(***************************************************************************)
EXTENDS Integers, FiniteSets, Sequences, TLC

(***************************************************************************)
(* Bounds of the model.                                                    *)
(***************************************************************************)
\* the callers (goroutines) of the scenario of simultaneous gate callers
NumCallers == 3

Callers == 1..NumCallers

\* the callers that run arbitrary operations on the one client
Procs == {c \in Callers : c <= 2}

\* the instants (minutes) at which the clock is read: a token issued at 0
\* expires at 55 and is then 55, 5 and 4 minutes from its expiry
Instants == {0, 50, 51}

(***************************************************************************)
(* Program constants.                                                      *)
(***************************************************************************)
\* auth.go:102  time.Now().Add(55 * time.Minute)
TokenLifetime == 55

\* auth.go:119  time.Until(c.tokenExpiry) < 5*time.Minute
RefreshMargin == 5

\* auth.go:255  time.Time{} : the zero instant, far in the past
ZeroTime == -1000000

\* auth.go:63   http.StatusOK
StatusOK == 200

\* auth.go:228  resp.StatusCode == 401
StatusUnauthorized == 401

\* client.go:65  resp.StatusCode >= 400
StatusBadRequest == 400

\* nobody holds the mutex
None == 0

\* resp.Status, the status line of a reply (auth.go:86, client.go:75)
StatusText(code) ==
    CASE code = 200 -> "200 OK"
      [] code = 201 -> "201 Created"
      [] code = 204 -> "204 No Content"
      [] code = 304 -> "304 Not Modified"
      [] code = 400 -> "400 Bad Request"
      [] code = 401 -> "401 Unauthorized"
      [] code = 404 -> "404 Not Found"
      [] code = 500 -> "500 Internal Server Error"
      [] OTHER -> ""

(***************************************************************************)
(* What the login endpoint may answer.  A body is what json.Unmarshal      *)
(* sees: whether it is a JSON object at all, and the fields it carries     *)
(* (an absent field decodes to the empty string).                          *)
(***************************************************************************)
AuthBody(isObject, tok, url, e, d) ==
    [object |-> isObject, access_token |-> tok, instance_url |-> url,
     error |-> e, error_description |-> d]

\* token responses: two well-formed ones and one without access_token
TokenBodies ==
    { AuthBody(TRUE, "T1", "U1", "", ""),
      AuthBody(TRUE, "T2", "U2", "", ""),
      AuthBody(TRUE, "", "U3", "", "") }

\* the OAuth error object
ErrorBodies == { AuthBody(TRUE, "", "", "invalid_grant", "expired") }

\* a body that is not a JSON object
GarbageBody == AuthBody(FALSE, "", "", "", "")

\* a reply of the login endpoint: the exchange itself may fail (transport),
\* or the endpoint answers 200 or 400 with one of the bodies above
AuthReplies ==
    [transport : {TRUE}, status : {0}, body : {GarbageBody}]
    \cup [transport : {FALSE}, status : {200},
          body : TokenBodies \cup {GarbageBody}]
    \cup [transport : {FALSE}, status : {400},
          body : ErrorBodies \cup {GarbageBody}]

\* a JSON object that carries neither a token nor an OAuth error
EmptyObjectBody == AuthBody(TRUE, "", "", "", "")

\* every reply of the login endpoint that the sequential specification
\* tries: the replies above, a token response sent with 201, and rejections
\* with a JSON object without "error" and with status 500
AllAuthReplies ==
    AuthReplies
    \cup [transport : {FALSE}, status : {201},
          body : {AuthBody(TRUE, "T1", "U1", "", "")}]
    \cup [transport : {FALSE}, status : {400, 500},
          body : {EmptyObjectBody, GarbageBody}]

\* no reply of the login endpoint
NoLogin == [transport |-> FALSE, status |-> 0, body |-> GarbageBody]

(***************************************************************************)
(* What the API endpoint may answer.  Bodies are the strings themselves;   *)
(* JsonParse gives what encoding/json makes of each of them.               *)
(***************************************************************************)
JsonBody == "{\"id\":\"500X\"}"
TextBody == "Session expired"
EmptyBody == ""
ErrorObjectBody == "{\"message\":\"m\",\"errorCode\":\"C\"}"
ErrorArrayBody == "[{\"message\":\"m\",\"errorCode\":\"C\"}]"
EmptyArrayBody == "[]"

\* the answers to a creation: the record made, and a refusal without id
CreatedBody == "{\"id\":\"500X\",\"success\":true}"
NotCreatedBody == "{\"success\":false}"

\* the answer to an upload that names its errors
UploadRefusedBody ==
    "{\"success\":false,\"errors\":[{\"message\":\"m\",\"errorCode\":\"C\"}]}"

\* a response body whose read fails before its end
BrokenBody == "{\"id\":\"500X\","

ApiBodies ==
    {JsonBody, TextBody, EmptyBody, ErrorObjectBody, ErrorArrayBody,
     EmptyArrayBody}

\* a parsed JSON text: its kind, for an array its length, and the members
\* "message" and "errorCode" of the object (of the first element, for an
\* array); an absent member is the empty string
JsonDoc(k, n, m, c) == [kind |-> k, len |-> n, message |-> m, errorCode |-> c]

\* the parse of each body
JsonParse(body) ==
    CASE body = JsonBody -> JsonDoc("object", 0, "", "")
      [] body = CreatedBody -> JsonDoc("object", 0, "", "")
      [] body = NotCreatedBody -> JsonDoc("object", 0, "", "")
      [] body = UploadRefusedBody -> JsonDoc("object", 0, "", "")
      [] body = ErrorObjectBody -> JsonDoc("object", 0, "m", "C")
      [] body = ErrorArrayBody -> JsonDoc("array", 1, "m", "C")
      [] body = EmptyArrayBody -> JsonDoc("array", 0, "", "")
      [] OTHER -> JsonDoc("invalid", 0, "", "")

\* json.Valid(body)
JsonValid(body) == JsonParse(body).kind # "invalid"

\* JsonId finding no identifier in any body
JsonIdAbsent(body) == ""

\* the member "id" of a JSON object, which encoding/json also takes for the
\* field tagged "Id"; "" when absent
JsonId(body) ==
    IF body \in {JsonBody, CreatedBody} THEN "500X" ELSE ""

\* the member "success" of a JSON object; false when absent
JsonSuccess(body) == body = CreatedBody

\* the member "errors" of a JSON object: the first element's message and
\* code, and the length of the array
JsonErrors(body) ==
    IF body = UploadRefusedBody
    THEN [len |-> 1, Message |-> "m", ErrorCode |-> "C"]
    ELSE [len |-> 0, Message |-> "", ErrorCode |-> ""]

ApiReply(failed, code, b) == [transport |-> failed, status |-> code, body |-> b]

\* the transport fails, or the endpoint answers 200, 401 or 404
ApiReplies ==
    { ApiReply(TRUE, 0, ""),
      ApiReply(FALSE, 200, JsonBody),
      ApiReply(FALSE, 401, TextBody),
      ApiReply(FALSE, 404, TextBody) }

\* the replies of the API endpoint to the domain operations: the transport
\* fails, or the endpoint answers 201, 400 or 401
DomBodies ==
    {CreatedBody, NotCreatedBody, UploadRefusedBody, ErrorArrayBody, TextBody}

DomApiReplies ==
    {ApiReply(TRUE, 0, "")}
    \cup {ApiReply(FALSE, code, b) : code \in {201, 400, 401}, b \in DomBodies}

\* every reply of the API endpoint that the sequential specification tries
AllApiReplies ==
    {ApiReply(TRUE, 0, "")}
    \cup {ApiReply(FALSE, code, b) :
             code \in {200, 204, 304, 400, 401, 404}, b \in ApiBodies}

\* the payload of a call: nil, a value json.Marshal encodes, and one it
\* rejects (a channel)
NilData == "nil"
Payloads == {NilData, "case", "chan"}

Methods == {"GET", "POST", "PUT", "PATCH", "DELETE"}

\* the session Case-IDs SetCaseID is called with, and the parent identifier
\* a caller passes itself
CaseIDs == {"500X", "500Y"}
OwnParentID == "500Z"
\* what a read of c.caseID that races with a write may see
TornID == "torn"

ParentIDs == CaseIDs \cup {OwnParentID, "", TornID}

\* EmailMessageParams.Status as the caller sets it (0: unset), and the
\* default (client.go:476)
EmailStatuses == {0, 5}
DefaultEmailStatus == 3

\* an EmailMessageParams value with the given ParentId and Status
EmailParams(parent, status) ==
    "EmailMessageParams{" \o parent \o "," \o ToString(status) \o "}"

\* its encoding: both members are tagged omitempty (models.go:168-176)
EmailJson(parent, status) ==
    LET a == IF parent = "" THEN "" ELSE "\"ParentId\":\"" \o parent \o "\""
        b == IF status = 0 THEN "" ELSE "\"Status\":" \o ToString(status)
    IN "{" \o a \o (IF a # "" /\ b # "" THEN "," ELSE "") \o b \o "}"

AllEmailParams ==
    {<<x, n>> : x \in ParentIDs, n \in EmailStatuses \cup {DefaultEmailStatus}}

\* client.go:373  25*1024*1024
MaxAttachmentSize == 25 * 1024 * 1024

\* the file system: what each path names, its size in bytes and the base64
\* encoding of its content.  A missing path, a file that cannot be opened,
\* a directory, a character device that reads as empty, and regular files
\* of 17 bytes, of the limit and of one byte more
File(k, n, b) == [kind |-> k, size |-> n, b64 |-> b]
FileAt(path) ==
    CASE path = "secret.txt" -> File("unreadable", 17, "")
      [] path = "dir" -> File("dir", 4096, "")
      [] path = "/dev/null" -> File("device", 0, "")
      [] path = "note.txt" -> File("regular", 17, "dGVzdCBmaWxlIGNvbnRlbnQ=")
      [] path = "max.bin" -> File("regular", MaxAttachmentSize, "AAAA...")
      [] path = "big.bin" -> File("regular", MaxAttachmentSize + 1, "AAAA...A=")
      [] OTHER -> File("missing", 0, "")

FilePaths ==
    {"", "missing.txt", "secret.txt", "dir", "/dev/null", "note.txt",
     "max.bin", "big.bin"}

\* the map UploadAttachment posts (client.go:399-403)
AttachmentData(parent, path) ==
    "map{ParentId:" \o parent \o ",Name:" \o path \o "}"

\* its encoding; encoding/json writes the keys of a map in sorted order
AttachmentJson(parent, path) ==
    "{\"Body\":\"" \o FileAt(path).b64 \o "\",\"Name\":\"" \o path
        \o "\",\"ParentId\":\"" \o parent \o "\"}"

AllAttachments == {<<x, f>> : x \in ParentIDs, f \in FilePaths}

\* json.Marshal(data): the error, "" for nil
MarshalErr(d) == IF d = "chan" THEN "json: unsupported type: chan int" ELSE ""

\* json.Marshal(data): the encoding
Marshal(d) ==
    IF d = "case" THEN "{\"Subject\":\"s\"}"
    ELSE IF \E e \in AllEmailParams : d = EmailParams(e[1], e[2])
    THEN LET e == CHOOSE e \in AllEmailParams : d = EmailParams(e[1], e[2])
         IN EmailJson(e[1], e[2])
    ELSE IF \E a \in AllAttachments : d = AttachmentData(a[1], a[2])
    THEN LET a == CHOOSE a \in AllAttachments : d = AttachmentData(a[1], a[2])
         IN AttachmentJson(a[1], a[2])
    ELSE ""

\* the arguments (method, data) of the dispatch calls: those of the
\* concurrent specification, and all of them
RequestArgs == {<<"GET", NilData>>}
AllRequestArgs == Methods \X Payloads

\* the headers argument of Request (auth.go:128), a map[string]string as the
\* set of its entries: nil, and maps whose keys meet the default headers in
\* canonical and in other spellings
NilHeaders == {}
HeaderArgs ==
    { NilHeaders,
      {<<"Authorization", "Basic b">>},
      {<<"accept", "text/xml">>},
      {<<"Content-Type", "text/plain">>, <<"Content-Length", "7">>},
      {<<"content-type", "a/b">>, <<"Content-Type", "c/d">>},
      {<<"X-Trace", "1">>} }

\* the key http.Header.Set stores a value under
\* (textproto.CanonicalMIMEHeaderKey)
CanonicalKey(k) ==
    IF k = "accept" THEN "Accept"
    ELSE IF k = "content-type" THEN "Content-Type"
    ELSE k

\* req.Header.Set(key, value)
SetHeader(hdr, key, value) ==
    [k \in DOMAIN hdr \cup {CanonicalKey(key)} |->
        IF k = CanonicalKey(key) THEN value ELSE hdr[k]]

\* for key, value := range headers { req.Header.Set(key, value) }
\* (auth.go:175-177): the headers a map iteration, whose order Go leaves
\* open, can produce
RECURSIVE RangeHeaders(_, _)
RangeHeaders(hdr, entries) ==
    IF entries = {} THEN {hdr}
    ELSE UNION { RangeHeaders(SetHeader(hdr, e[1], e[2]), entries \ {e}) :
                    e \in entries }

\* the default headers of Request (auth.go:166-172): reqBody is the encoded
\* payload when one was serialized
DefaultHeaders(tok, serialized, reqBody) ==
    LET std == SetHeader(SetHeader(<< >>, "Authorization",
                                   "Bearer " \o tok),
                         "Accept", "application/json")
    IN  IF serialized
        THEN SetHeader(SetHeader(std, "Content-Type", "application/json"),
                       "Content-Length", ToString(Len(reqBody)))
        ELSE std

\* RequestHeaders with the defaults set last
RequestHeadersDefaultsLast(tok, serialized, reqBody, hs) ==
    { [k \in DOMAIN hdr \cup DOMAIN DefaultHeaders(tok, serialized, reqBody)
          |-> IF k \in DOMAIN DefaultHeaders(tok, serialized, reqBody)
              THEN DefaultHeaders(tok, serialized, reqBody)[k]
              ELSE hdr[k]] : hdr \in RangeHeaders(<< >>, hs) }

\* the headers of the request Request builds (auth.go:165-177): the defaults,
\* then the caller's
RequestHeaders(tok, serialized, reqBody, hs) ==
    RangeHeaders(DefaultHeaders(tok, serialized, reqBody), hs)

\* the value SetInstanceURL is called with
AdminURLs == {"Uadmin"}

\* a read of instanceURL that races with a write may see neither value
TornURL == "torn"

VARIABLES
    accessToken,    \* c.accessToken
    instanceURL,    \* c.instanceURL
    tokenExpiry,    \* c.tokenExpiry, in minutes
    mu,             \* c.mu: the caller holding it, or None
    now,            \* the wall clock, in minutes
    op,             \* per caller: the operation it is running
    pc,             \* per caller: where it is in that operation
    token,          \* per caller: the local `token` of the dispatch path
    fullURL,        \* per caller: the instance URL the request is addressed to
    ret,            \* per caller: what the operation returned
    snap,           \* per caller: the token store as the gate found it
    exch,           \* per caller: exchanges sent by the gate in this call
    fexch,          \* per caller: exchanges sent by the forced refresh
    apiSent,        \* per caller: requests sent to the API endpoint
    arg,            \* per caller: the argument of a setter
    method,         \* per caller: the HTTP method of a dispatch call
    data,           \* per caller: the payload of a dispatch call
    headers,        \* per caller: the headers argument of Request
    reqHeader,      \* per caller: the header of the request Request sends
    ctxDone,        \* per caller: its context is cancelled or past its deadline
    caseID,         \* c.caseID
    refreshToken,   \* c.authConfig.RefreshToken
    sentRT,         \* per caller: the refresh_token of its exchange in flight
    dom,            \* per caller: the domain operation it is inside
    res             \* per caller: what its last domain operation returned

vars == <<accessToken, instanceURL, tokenExpiry, mu, now, op, pc, token,
          fullURL, ret, snap, exch, fexch, apiSent, arg, method, data, ctxDone,
          caseID, refreshToken, sentRT, dom, res, headers, reqHeader>>

store == <<accessToken, instanceURL, tokenExpiry>>
params == <<arg, method, data, headers, ctxDone>>
locals == <<token, fullURL, reqHeader, ret, snap, exch, fexch, apiSent,
            params>>
session == <<caseID, refreshToken>>
frames == <<dom, res>>


(***************************************************************************)
(* The envelope of the lenient dispatch path (models.go Response).         *)
(***************************************************************************)
NilResponse ==
    [isNil |-> TRUE, Success |-> FALSE, Code |-> 0, Raw |-> "", Data |-> ""]

\* SuccessFlag without the upper bound of the 2xx class
SuccessFlagNoUpperBound(code) == code >= 200

\* auth.go:215  Success: resp.StatusCode >= 200 && resp.StatusCode < 300
SuccessFlag(code) == code >= 200 /\ code < 300

\* Envelope attaching the body to Data whether or not it is JSON
EnvelopeDataAlways(reply) ==
    [isNil |-> FALSE,
     Success |-> SuccessFlag(reply.status),
     Code |-> reply.status,
     Raw |-> reply.body,
     Data |-> reply.body]

\* auth.go:214-225  the Response built from the API reply
Envelope(reply) ==
    [isNil |-> FALSE,
     Success |-> SuccessFlag(reply.status),
     Code |-> reply.status,
     Raw |-> reply.body,
     Data |-> IF JsonValid(reply.body) THEN reply.body ELSE ""]

\* no reply received from the API endpoint
NoReply == ApiReply(FALSE, 0, "")

\* the *http.Response the strict dispatch path returns, and nil
NilHttp == [isNil |-> TRUE, StatusCode |-> 0, Body |-> ""]
HttpResponse(reply) ==
    [isNil |-> FALSE, StatusCode |-> reply.status, Body |-> reply.body]

\* what an operation returned: getValidToken a token and an error, Request
\* an envelope and an error, doRequest an *http.Response and an error.
\* With it are recorded the reply the login endpoint gave to the gate's
\* exchange, the body of the request sent to the API endpoint, the reply got
\* from it, and the error forceTokenRefresh returned to Request.
NoRet ==
    [token |-> "", resp |-> NilResponse, http |-> NilHttp, err |-> "",
     login |-> NoLogin, reqBody |-> "", reply |-> NoReply, refreshErr |-> ""]

NoSnap == [tok |-> "", url |-> "", exp |-> ZeroTime, at |-> 0]

\* the refresh token NewAPIClient is given in its AuthConfig
ConfiguredRefreshToken == "R0"

\* the values SetRefreshToken is called with
RotatedTokens == {"R1", "R2"}

\* SentRefreshToken sending the token the client was constructed with
SentRefreshTokenConfigured == ConfiguredRefreshToken

\* the refresh_token field of the exchange authenticate sends (auth.go:21)
SentRefreshToken == refreshToken

\* the call frame of a domain operation: its name, the identifier (of the
\* parent, or the Case-ID to set) and the file path it was called with;
\* NoDom outside any
Frame(o, parent, path) == [op |-> o, parentID |-> parent, filePath |-> path]
NoDom == Frame("none", "", "")

\* what the domain operation called with frame f returned: the error ("" for
\* nil) and the identifier of the result
Result(f, e, i) == [call |-> f, err |-> e, id |-> i]
NoRes == Result(NoDom, "", "")

(***************************************************************************)
(* authenticate (auth.go:16-112), called with the mutex held.              *)
(***************************************************************************)
\* AuthErr taking every body of a 200 reply for a token response
AuthErrNoDecodeCheck(reply) ==
    IF reply.transport THEN "auth request failed"
    ELSE IF reply.status # StatusOK
         THEN IF reply.body.object /\ reply.body.error # ""
              THEN "auth failed: " \o reply.body.error \o " - "
                       \o reply.body.error_description
              ELSE "auth failed with status: " \o StatusText(reply.status)
         ELSE ""

\* the error authenticate returns for a reply, "" for nil
AuthErr(reply) ==
    IF reply.transport THEN "auth request failed"
    ELSE IF reply.status # StatusOK
         THEN IF reply.body.object /\ reply.body.error # ""
              THEN "auth failed: " \o reply.body.error \o " - "
                       \o reply.body.error_description
              ELSE "auth failed with status: " \o StatusText(reply.status)
         ELSE IF ~reply.body.object
              THEN "failed to decode auth response"
              ELSE ""

\* AuthStore assigning the fields before the status and the decoding are
\* checked
AuthStoreBeforeCheck(reply, cur) ==
    IF reply.transport THEN cur
    ELSE <<reply.body.access_token, reply.body.instance_url,
           now + TokenLifetime>>

\* AuthStore forgetting the instance URL
AuthStoreTokenOnly(reply, cur) ==
    IF AuthErr(reply) = ""
    THEN <<reply.body.access_token, cur[2], now + TokenLifetime>>
    ELSE cur

\* the token store authenticate leaves behind
AuthStore(reply, cur) ==
    IF AuthErr(reply) = ""
    THEN <<reply.body.access_token, reply.body.instance_url,
           now + TokenLifetime>>
    ELSE cur

\* the three fields of the token store take the values of s
WriteStore(s) ==
    /\ accessToken' = s[1]
    /\ instanceURL' = s[2]
    /\ tokenExpiry' = s[3]

\* NeedsRefresh without the validity test
NeedsRefreshAlways(tok, exp, t) == TRUE

\* NeedsRefresh refreshing a token with exactly the margin left
NeedsRefreshInclusive(tok, exp, t) == tok = "" \/ exp - t <= RefreshMargin

\* NeedsRefresh without the look-ahead margin
NeedsRefreshNoMargin(tok, exp, t) == tok = "" \/ exp - t < 0

\* getValidToken's test (auth.go:119); time.Until saturates for ZeroTime
NeedsRefresh(tok, exp, t) == tok = "" \/ exp - t < RefreshMargin

\* CanLock of a lock that excludes nobody
CanLockAnyone(p) == TRUE

\* sync.Mutex.Lock returns only when nobody holds the mutex
CanLock(p) == mu = None

\* MuAfterUnlock of an Unlock that is skipped on the error return
MuAfterUnlockOnSuccessOnly(p, err) == IF err = "" THEN None ELSE p

\* the mutex after the deferred c.mu.Unlock() of getValidToken and
\* forceTokenRefresh (auth.go:117, 252), held by p, authenticate having
\* returned err
MuAfterUnlock(p, err) == None

\* ClearedStore leaving the previous token and expiry in place
ClearedStoreKeepsToken == <<accessToken, instanceURL, tokenExpiry>>

\* forceTokenRefresh's clearing of the store (auth.go:254-255)
ClearedStore == <<"", instanceURL, ZeroTime>>

\* ErrAfterForcedRefresh returning the refresh failure to the caller
ErrAfterForcedRefreshPropagated(refreshErr) ==
    IF refreshErr = "" THEN "" ELSE "token refresh failed: " \o refreshErr

\* Request's error after the forced refresh returned refreshErr
\* (auth.go:235-246: logged, not returned)
ErrAfterForcedRefresh(refreshErr) == ""

\* PcAfterForcedRefresh sending the request again with the new token
PcAfterForcedRefreshRetry == "build"

\* where Request goes after the forced refresh: it returns (auth.go:246)
PcAfterForcedRefresh == "done"

\* PcAfterReply without the 401 policy
PcAfterReplyNoRefresh(reply) == "done"

\* where Request goes after the reply: to forceTokenRefresh on 401, whatever
\* the store holds by then, and to its return otherwise (auth.go:227-246)
PcAfterReply(reply) ==
    IF reply.status = StatusUnauthorized THEN "force" ELSE "done"

\* an unsynchronised read of c.instanceURL (auth.go:136): a data race with
\* whoever holds the mutex and may be writing the field
RacyInstanceURL(p) ==
    {instanceURL} \cup (IF mu \notin {None, p} THEN {TornURL} ELSE {})

\* Serializes encoding the payload whatever the method
SerializesAnyMethod(m, d) == d # NilData

\* Request encodes the payload (auth.go:140)
Serializes(m, d) == d # NilData /\ m \in {"POST", "PUT", "PATCH"}

\* the operations of the strict dispatch path
StrictOps == {"doRequest", "doRequestWithHeaders"}

\* GatePrefix without the wrapping
GatePrefixBare(o) == ""

\* how each caller of the gate wraps its error (auth.go:132, client.go:32)
GatePrefix(o) ==
    IF o = "Request" THEN "failed to get valid token: "
    ELSE IF o \in StrictOps THEN "failed to get token: "
    ELSE ""

\* PcAfterGate going on to build the request whatever the gate returned
PcAfterGateIgnoringError(o, err) ==
    IF o = "Request" THEN "build"
    ELSE IF o \in StrictOps THEN "sbuild"
    ELSE "done"

\* where the caller of the gate goes: a dispatch path goes on to build its
\* request when the gate returned a token and returns otherwise
\* (auth.go:131-133, client.go:31-33); getValidToken has returned
PcAfterGate(o, err) ==
    IF err # "" THEN "done"
    ELSE IF o = "Request" THEN "build"
    ELSE IF o \in StrictOps THEN "sbuild"
    ELSE "done"

\* DecodeErrorResponse accepting an array and taking its first element
DecodeErrorResponseArrayToo(body) ==
    LET j == JsonParse(body)
    IN IF j.kind = "object" \/ (j.kind = "array" /\ j.len >= 1)
       THEN [failed |-> FALSE, Message |-> j.message,
             ErrorCode |-> j.errorCode]
       ELSE [failed |-> TRUE, Message |-> "", ErrorCode |-> ""]

\* json.NewDecoder(resp.Body).Decode(&errResp) (client.go:67-68): a JSON
\* object decodes into ErrorResponse, absent members staying empty; an
\* array, an empty body and a text that is not JSON are errors
DecodeErrorResponse(body) ==
    LET j == JsonParse(body)
    IN IF j.kind = "object"
       THEN [failed |-> FALSE, Message |-> j.message,
             ErrorCode |-> j.errorCode]
       ELSE [failed |-> TRUE, Message |-> "", ErrorCode |-> ""]

\* fmt.Errorf("API error: %s (code: %s)", message, code)
ApiErrorText(m, c) == "API error: " \o m \o " (code: " \o c \o ")"

\* fmt.Errorf("request failed with status: %s", resp.Status)
StatusErrorText(code) == "request failed with status: " \o StatusText(code)

\* StrictFails sparing the status 400 itself
StrictFailsAbove(code) == code > StatusBadRequest

\* the strict dispatch path's test of the status (client.go:65)
StrictFails(code) == code >= StatusBadRequest

\* PcAfterStrictReply applying the 401 policy of Request
PcAfterStrictReplyRefreshing(reply) ==
    IF reply.status = StatusUnauthorized THEN "force" ELSE "done"

\* where the strict dispatch path goes after the reply: it returns, whatever
\* the status (client.go:65-88)
PcAfterStrictReply(reply) == "done"

\* the error the strict dispatch path returns for a reply (client.go:65-88),
\* "" for nil
StrictErr(reply) ==
    IF ~StrictFails(reply.status) THEN ""
    ELSE LET e == DecodeErrorResponse(reply.body)
         IN IF e.failed THEN StatusErrorText(reply.status)
            ELSE ApiErrorText(e.Message, e.ErrorCode)

\* the error Request returns for a reply of the API endpoint: none, whatever
\* the status (auth.go:213-246)
RequestErr(reply) == ""

\* the replies a call of c.httpClient.Do can get: once the context of the
\* request is done, Do returns its error and nothing else
CtxReplies(p, replies) ==
    IF ctxDone[p] THEN {r \in replies : r.transport} ELSE replies

(***************************************************************************)
(* Initial state: NewAPIClient (client.go:18-26) leaves every field of the *)
(* token store at its zero value; no caller is running.                    *)
(***************************************************************************)
IdleLocals ==
    /\ token = [p \in Callers |-> ""]
    /\ fullURL = [p \in Callers |-> ""]
    /\ ret = [p \in Callers |-> NoRet]
    /\ snap = [p \in Callers |-> NoSnap]
    /\ exch = [p \in Callers |-> 0]
    /\ fexch = [p \in Callers |-> 0]
    /\ apiSent = [p \in Callers |-> 0]
    /\ arg = [p \in Callers |-> ""]
    /\ method = [p \in Callers |-> ""]
    /\ data = [p \in Callers |-> NilData]
    /\ headers = [p \in Callers |-> NilHeaders]
    /\ reqHeader = [p \in Callers |-> << >>]
    /\ ctxDone = [p \in Callers |-> FALSE]
    /\ sentRT = [p \in Callers |-> ""]
    /\ dom = [p \in Callers |-> NoDom]
    /\ res = [p \in Callers |-> NoRes]

Init ==
    /\ accessToken = ""
    /\ instanceURL = ""
    /\ tokenExpiry = ZeroTime
    /\ mu = None
    /\ now = 0
    /\ op = [p \in Callers |-> "none"]
    /\ pc = [p \in Callers |-> "idle"]
    /\ caseID = ""
    /\ refreshToken = ConfiguredRefreshToken
    /\ IdleLocals

\* a caller that is not inside an operation
AtRest(p) == pc[p] \in {"idle", "done"} /\ dom[p] = NoDom

\* a caller starts operation o at label l with fresh locals, a context that
\* is not done, and the arguments a (setter), m (method), d (payload) and
\* h (headers)
StartWithHeaders(p, o, l, a, m, d, h) ==
    /\ AtRest(p)
    /\ op' = [op EXCEPT ![p] = o]
    /\ pc' = [pc EXCEPT ![p] = l]
    /\ token' = [token EXCEPT ![p] = ""]
    /\ fullURL' = [fullURL EXCEPT ![p] = ""]
    /\ reqHeader' = [reqHeader EXCEPT ![p] = << >>]
    /\ ret' = [ret EXCEPT ![p] = NoRet]
    /\ snap' = [snap EXCEPT ![p] = NoSnap]
    /\ exch' = [exch EXCEPT ![p] = 0]
    /\ fexch' = [fexch EXCEPT ![p] = 0]
    /\ apiSent' = [apiSent EXCEPT ![p] = 0]
    /\ arg' = [arg EXCEPT ![p] = a]
    /\ method' = [method EXCEPT ![p] = m]
    /\ headers' = [headers EXCEPT ![p] = h]
    /\ data' = [data EXCEPT ![p] = d]
    /\ ctxDone' = [ctxDone EXCEPT ![p] = FALSE]
    /\ UNCHANGED <<store, mu, now,
                   session, sentRT, frames>>

\* the same with no headers
StartWith(p, o, l, a, m, d) == StartWithHeaders(p, o, l, a, m, d, NilHeaders)

Start(p, o, l, a) == StartWith(p, o, l, a, "", NilData)

\* the clock advances
Tick ==
    /\ \E t \in Instants : t > now /\ now' = t
    /\ UNCHANGED <<store, mu, op, pc, locals,
                   session, sentRT, frames>>

CallGetValidToken(p) == Start(p, "getValidToken", "gate", "")

CallRequest(p) ==
    \E a \in RequestArgs : StartWith(p, "Request", "gate", "", a[1], a[2])

\* Request called with any method and payload
CallRequestAny(p) ==
    \E a \in AllRequestArgs : StartWith(p, "Request", "gate", "", a[1], a[2])

\* Request called with any method, payload and headers
CallRequestHeaders(p) ==
    \E a \in AllRequestArgs, h \in HeaderArgs :
       StartWithHeaders(p, "Request", "gate", "", a[1], a[2], h)

\* doRequest and doRequestWithHeaders called with any method and payload
CallDoRequest(p) ==
    \E a \in AllRequestArgs : StartWith(p, "doRequest", "gate", "", a[1], a[2])

CallDoRequestWithHeaders(p) ==
    \E a \in AllRequestArgs :
       StartWith(p, "doRequestWithHeaders", "gate", "", a[1], a[2])

CallSetInstanceURL(p) ==
    \E u \in AdminURLs : Start(p, "SetInstanceURL", "setlock", u)

CallSetRefreshToken(p) ==
    \E r \in RotatedTokens : Start(p, "SetRefreshToken", "rotlock", r)

\* the caller's context is cancelled, or its deadline passes, while its
\* operation is running
Cancel(p) ==
    /\ ~AtRest(p)
    /\ ~ctxDone[p]
    /\ ctxDone' = [ctxDone EXCEPT ![p] = TRUE]
    /\ UNCHANGED <<store, mu, now, op, pc, token, fullURL, reqHeader, ret,
                   snap, exch, fexch, apiSent, arg, method, data, headers,
                   session, sentRT, frames>>

\* what the caller of getValidToken does with (tok, err): getValidToken
\* itself returns it; a dispatch path (auth.go:130-133, client.go:30-33)
\* wraps the error and returns, or keeps the token and goes on to build its
\* request.  The record of the gate's pass (snap, exch, the login reply) is
\* kept for a direct call of the gate and for a failed one; snap is dropped
\* once the gate has returned a token.
AfterGate(p, tok, err, ex, login) ==
    /\ pc' = [pc EXCEPT ![p] = PcAfterGate(op[p], err)]
    /\ IF op[p] = "getValidToken"
       THEN /\ token' = token
            /\ ret' = [ret EXCEPT ![p].token = tok, ![p].err = err,
                                  ![p].login = login]
            /\ exch' = [exch EXCEPT ![p] = ex]
       ELSE /\ token' = [token EXCEPT ![p] = tok]
            /\ ret' = [ret EXCEPT ![p].err =
                                     IF err = "" THEN ""
                                     ELSE GatePrefix(op[p]) \o err,
                                  ![p].login =
                                     IF err = "" THEN NoLogin ELSE login]
            /\ exch' = [exch EXCEPT ![p] = 0]
    /\ snap' = [snap EXCEPT ![p] =
                   IF err = "" THEN NoSnap
                   ELSE snap[p]]

\* getValidToken (auth.go:115-126) up to the exchange: takes the mutex,
\* tests the store, and either returns the stored token (releasing the
\* mutex) or sends the exchange and waits for the reply holding the mutex
GateEnter(p) ==
    /\ pc[p] = "gate"
    /\ CanLock(p)
    /\ IF NeedsRefresh(accessToken, tokenExpiry, now)
       THEN /\ mu' = p
            /\ pc' = [pc EXCEPT ![p] = "auth"]
            /\ exch' = [exch EXCEPT ![p] = @ + 1]
            /\ snap' = [snap EXCEPT ![p] =
                           [tok |-> accessToken, url |-> instanceURL,
                            exp |-> tokenExpiry, at |-> now]]
            /\ sentRT' = [sentRT EXCEPT ![p] = SentRefreshToken]
            /\ UNCHANGED <<token, ret>>
       ELSE /\ mu' = mu
            /\ sentRT' = sentRT
            /\ AfterGate(p, accessToken, "", exch[p], NoLogin)
    /\ UNCHANGED <<store, now, op, fullURL, reqHeader, fexch, apiSent, params,
                   session, frames>>

\* the reply to the gate's exchange: authenticate finishes, getValidToken
\* returns c.accessToken or the error, the deferred Unlock runs
AuthReplyFrom(p, replies) ==
    /\ pc[p] = "auth"
    /\ \E reply \in CtxReplies(p, replies) :
         /\ WriteStore(AuthStore(reply, store))
         /\ AfterGate(p, IF AuthErr(reply) = "" THEN accessToken' ELSE "",
                      AuthErr(reply), exch[p], reply)
         /\ mu' = MuAfterUnlock(p, AuthErr(reply))
    /\ sentRT' = [sentRT EXCEPT ![p] = ""]
    /\ UNCHANGED <<now, op, fullURL, reqHeader, fexch, apiSent, params,
                   session, frames>>

AuthReply(p) == AuthReplyFrom(p, AuthReplies)

AuthReplyAny(p) == AuthReplyFrom(p, AllAuthReplies)

\* Request (auth.go:135-180): reads c.instanceURL without the mutex, encodes
\* the payload, returning if that fails, builds the request with the bearer
\* token and sends it.  The arguments are dead from here on.
ReqSend(p) ==
    /\ pc[p] = "build"
    /\ IF Serializes(method[p], data[p]) /\ MarshalErr(data[p]) # ""
       THEN /\ ret' = [ret EXCEPT ![p].err =
                          "failed to marshal request data: "
                              \o MarshalErr(data[p])]
            /\ pc' = [pc EXCEPT ![p] = "done"]
            /\ token' = [token EXCEPT ![p] = ""]
            /\ UNCHANGED <<fullURL, reqHeader, apiSent>>
       ELSE /\ \E u \in RacyInstanceURL(p) :
                  fullURL' = [fullURL EXCEPT ![p] = u]
            /\ \E hdr \in RequestHeaders(token[p],
                                           Serializes(method[p], data[p]),
                                           Marshal(data[p]), headers[p]) :
                  reqHeader' = [reqHeader EXCEPT ![p] = hdr]
            /\ apiSent' = [apiSent EXCEPT ![p] = @ + 1]
            /\ ret' = [ret EXCEPT ![p].reqBody =
                          IF Serializes(method[p], data[p])
                          THEN Marshal(data[p]) ELSE ""]
            /\ pc' = [pc EXCEPT ![p] = "wait"]
            /\ token' = token
    /\ method' = [method EXCEPT ![p] = ""]
    /\ headers' = [headers EXCEPT ![p] = NilHeaders]
    /\ data' = [data EXCEPT ![p] = NilData]
    /\ UNCHANGED <<store, mu, now, op, snap, exch, fexch, arg, ctxDone,
                   session, sentRT, frames>>

\* Request (auth.go:180-234): the API reply; a transport failure is returned
\* as an error; otherwise the envelope is built, and on 401 the forced
\* refresh is called before returning it.  The local fullURL is dead once
\* the request is sent; the local token is kept to the end of a call that
\* was answered by 401, and is dead otherwise.
ReqReplyFrom(p, replies) ==
    /\ pc[p] = "wait"
    /\ \E reply \in CtxReplies(p, replies) :
         IF reply.transport
         THEN /\ ret' = [ret EXCEPT ![p].err = "request failed"]
              /\ pc' = [pc EXCEPT ![p] = "done"]
              /\ token' = [token EXCEPT ![p] = ""]
         ELSE /\ ret' = [ret EXCEPT ![p].resp = Envelope(reply),
                                    ![p].err = RequestErr(reply),
                                    ![p].reply = reply]
              /\ pc' = [pc EXCEPT ![p] = PcAfterReply(reply)]
              /\ token' = [token EXCEPT ![p] =
                              IF reply.status = StatusUnauthorized
                              THEN @ ELSE ""]
    /\ fullURL' = [fullURL EXCEPT ![p] = ""]
    /\ reqHeader' = [reqHeader EXCEPT ![p] = << >>]
    /\ UNCHANGED <<store, mu, now, op, snap, exch, fexch, apiSent, params,
                   session, sentRT, frames>>

ReqReply(p) == ReqReplyFrom(p, ApiReplies)

ReqReplyAny(p) == ReqReplyFrom(p, AllApiReplies)

\* forceTokenRefresh (auth.go:250-257) up to the exchange: takes the mutex,
\* clears token and expiry, sends the exchange
ForceEnter(p) ==
    /\ pc[p] = "force"
    /\ CanLock(p)
    /\ mu' = p
    /\ WriteStore(ClearedStore)
    /\ fexch' = [fexch EXCEPT ![p] = @ + 1]
    /\ sentRT' = [sentRT EXCEPT ![p] = SentRefreshToken]
    /\ pc' = [pc EXCEPT ![p] = "fauth"]
    /\ UNCHANGED <<now, op, token, fullURL, reqHeader, ret, snap, exch,
                   apiSent, params,
                   session, frames>>

\* the reply to the forced exchange: authenticate finishes, the mutex is
\* released, and Request returns the envelope (auth.go:235-246)
ForceReplyFrom(p, replies) ==
    /\ pc[p] = "fauth"
    /\ \E reply \in CtxReplies(p, replies) :
         /\ WriteStore(AuthStore(reply, store))
         /\ ret' = [ret EXCEPT ![p].err = ErrAfterForcedRefresh(AuthErr(reply)),
                               ![p].refreshErr = AuthErr(reply)]
         /\ mu' = MuAfterUnlock(p, AuthErr(reply))
    /\ sentRT' = [sentRT EXCEPT ![p] = ""]
    /\ pc' = [pc EXCEPT ![p] = PcAfterForcedRefresh]
    /\ UNCHANGED <<now, op, token, fullURL, reqHeader, snap, exch, fexch,
                   apiSent, params,
                   session, frames>>

ForceReply(p) == ForceReplyFrom(p, AuthReplies)

ForceReplyAny(p) == ForceReplyFrom(p, AllAuthReplies)

\* doRequest (client.go:35-58) and doRequestWithHeaders (client.go:166-204):
\* encodes the payload if there is one, returning if that fails, reads
\* c.instanceURL without the mutex, builds the request with the bearer token
\* and sends it
StrictSend(p) ==
    /\ pc[p] = "sbuild"
    /\ IF data[p] # NilData /\ MarshalErr(data[p]) # ""
       THEN /\ ret' = [ret EXCEPT ![p].err =
                          "failed to marshal request body: "
                              \o MarshalErr(data[p])]
            /\ pc' = [pc EXCEPT ![p] = "done"]
            /\ token' = [token EXCEPT ![p] = ""]
            /\ UNCHANGED <<fullURL, reqHeader, apiSent>>
       ELSE /\ \E u \in RacyInstanceURL(p) :
                  fullURL' = [fullURL EXCEPT ![p] = u]
            /\ reqHeader' = reqHeader
            /\ apiSent' = [apiSent EXCEPT ![p] = @ + 1]
            /\ ret' = [ret EXCEPT ![p].reqBody =
                          IF data[p] # NilData THEN Marshal(data[p]) ELSE ""]
            /\ pc' = [pc EXCEPT ![p] = "swait"]
            /\ token' = token
    /\ method' = [method EXCEPT ![p] = ""]
    /\ headers' = [headers EXCEPT ![p] = NilHeaders]
    /\ data' = [data EXCEPT ![p] = NilData]
    /\ UNCHANGED <<store, mu, now, op, snap, exch, fexch, arg, ctxDone,
                   session, sentRT, frames>>

\* doRequest (client.go:58-88) and doRequestWithHeaders (client.go:204-241):
\* the API reply; a transport failure is returned as an error; a status of
\* 400 or more is returned as the error made from the body, without the
\* response; otherwise the response is returned
StrictReplyFrom(p, replies) ==
    /\ pc[p] = "swait"
    /\ \E reply \in CtxReplies(p, replies) :
         IF reply.transport
         THEN ret' = [ret EXCEPT ![p].err = "request failed"]
         ELSE ret' = [ret EXCEPT ![p].err = StrictErr(reply),
                                 ![p].http =
                                    IF StrictErr(reply) = ""
                                    THEN HttpResponse(reply) ELSE NilHttp,
                                 ![p].reply = reply]
    /\ \E reply \in {ret'[p].reply} :
         pc' = [pc EXCEPT ![p] = PcAfterStrictReply(reply)]
    /\ token' = [token EXCEPT ![p] = ""]
    /\ fullURL' = [fullURL EXCEPT ![p] = ""]
    /\ reqHeader' = [reqHeader EXCEPT ![p] = << >>]
    /\ UNCHANGED <<store, mu, now, op, snap, exch, fexch, apiSent, params,
                   session, sentRT, frames>>

StrictReply(p) == StrictReplyFrom(p, AllApiReplies)

\* SetInstanceURL (auth_test.go:584-588): Lock
SetLock(p) ==
    /\ pc[p] = "setlock"
    /\ CanLock(p)
    /\ mu' = p
    /\ pc' = [pc EXCEPT ![p] = "setstore"]
    /\ UNCHANGED <<store, now, op, locals,
                   session, sentRT, frames>>

\* SetInstanceURL: the assignment and the deferred Unlock
SetStore(p) ==
    /\ pc[p] = "setstore"
    /\ instanceURL' = arg[p]
    /\ mu' = None
    /\ pc' = [pc EXCEPT ![p] = "done"]
    /\ UNCHANGED <<accessToken, tokenExpiry, now, op, locals,
                   session, sentRT, frames>>

\* SetRefreshToken (client_test.go:983-987): Lock
RotLock(p) ==
    /\ pc[p] = "rotlock"
    /\ CanLock(p)
    /\ mu' = p
    /\ pc' = [pc EXCEPT ![p] = "rotstore"]
    /\ UNCHANGED <<store, now, op, locals, session, sentRT, frames>>

\* SetRefreshToken: the assignment and the deferred Unlock
RotStore(p) ==
    /\ pc[p] = "rotstore"
    /\ refreshToken' = arg[p]
    /\ mu' = None
    /\ pc' = [pc EXCEPT ![p] = "done"]
    /\ UNCHANGED <<store, now, op, locals, caseID, sentRT, frames>>

Next ==
    \/ Tick
    \/ \E p \in Procs : CallGetValidToken(p)
    \/ \E p \in Procs : CallRequest(p)
    \/ \E p \in Procs : CallSetInstanceURL(p)
    \/ \E p \in Procs : GateEnter(p)
    \/ \E p \in Procs : AuthReply(p)
    \/ \E p \in Procs : ReqSend(p)
    \/ \E p \in Procs : ReqReply(p)
    \/ \E p \in Procs : ForceEnter(p)
    \/ \E p \in Procs : ForceReply(p)
    \/ \E p \in Procs : SetLock(p)
    \/ \E p \in Procs : SetStore(p)

Spec == Init /\ [][Next]_vars

(***************************************************************************)
(* One caller running the operations one after another, with every method  *)
(* and payload and every reply of the two endpoints.                       *)
(***************************************************************************)
Solo == {c \in Callers : c <= 1}

NextSeq ==
    \/ Tick
    \/ \E p \in Solo : CallGetValidToken(p)
    \/ \E p \in Solo : CallRequestAny(p)
    \/ \E p \in Solo : CallDoRequest(p)
    \/ \E p \in Solo : CallDoRequestWithHeaders(p)
    \/ \E p \in Solo : GateEnter(p)
    \/ \E p \in Solo : AuthReplyAny(p)
    \/ \E p \in Solo : ReqSend(p)
    \/ \E p \in Solo : ReqReplyAny(p)
    \/ \E p \in Solo : ForceEnter(p)
    \/ \E p \in Solo : ForceReplyAny(p)
    \/ \E p \in Solo : StrictSend(p)
    \/ \E p \in Solo : StrictReply(p)

SpecSeq == Init /\ [][NextSeq]_vars

\* One caller calling Request with every method, payload and headers argument.
NextHdr ==
    \/ \E p \in Solo : CallRequestHeaders(p)
    \/ \E p \in Solo : GateEnter(p)
    \/ \E p \in Solo : AuthReply(p)
    \/ \E p \in Solo : ReqSend(p)
    \/ \E p \in Solo : ReqReply(p)
    \/ \E p \in Solo : ForceEnter(p)
    \/ \E p \in Solo : ForceReply(p)

SpecHdr == Init /\ [][NextHdr]_vars

(***************************************************************************)
(* Concurrent calls of Request whose contexts may be cancelled, or pass    *)
(* their deadline, at any moment.  The clock stands still.                 *)
(***************************************************************************)
NextCancel ==
    \/ \E p \in Procs : CallRequest(p)
    \/ \E p \in Procs : Cancel(p)
    \/ \E p \in Procs : GateEnter(p)
    \/ \E p \in Procs : AuthReply(p)
    \/ \E p \in Procs : ReqSend(p)
    \/ \E p \in Procs : ReqReply(p)
    \/ \E p \in Procs : ForceEnter(p)
    \/ \E p \in Procs : ForceReply(p)

SpecCancel == Init /\ [][NextCancel]_vars

(***************************************************************************)
(* Concurrent calls of the gate and of Request while the refresh token is  *)
(* rotated.  The clock stands still.                                       *)
(***************************************************************************)
NextRot ==
    \/ \E p \in Procs : CallGetValidToken(p)
    \/ \E p \in Procs : CallRequest(p)
    \/ \E p \in Procs : CallSetRefreshToken(p)
    \/ \E p \in Procs : GateEnter(p)
    \/ \E p \in Procs : AuthReply(p)
    \/ \E p \in Procs : ReqSend(p)
    \/ \E p \in Procs : ReqReply(p)
    \/ \E p \in Procs : ForceEnter(p)
    \/ \E p \in Procs : ForceReply(p)
    \/ \E p \in Procs : RotLock(p)
    \/ \E p \in Procs : RotStore(p)

SpecRot == Init /\ [][NextRot]_vars

(***************************************************************************)
(* Concurrent calls of the gate, of Request and of the two setters, every  *)
(* HTTP exchange being answered and every caller inside an operation being *)
(* scheduled (weak fairness); a caller waiting in Lock gets the mutex when  *)
(* it is free again and again (sync.Mutex hands the mutex to a waiter that  *)
(* has been starved: strong fairness).  The login endpoint issues T1 or the *)
(* exchange fails.  The clock stands still.                                *)
(***************************************************************************)
NextLive ==
    \/ \E p \in Procs : CallGetValidToken(p)
    \/ \E p \in Procs : CallRequest(p)
    \/ \E p \in Procs : CallSetInstanceURL(p)
    \/ \E p \in Procs : CallSetRefreshToken(p)
    \/ \E p \in Procs : GateEnter(p)
    \/ \E p \in Procs :
          AuthReplyFrom(p, {r \in AuthReplies :
                              r.transport \/ r.body.access_token = "T1"})
    \/ \E p \in Procs : ReqSend(p)
    \/ \E p \in Procs : ReqReply(p)
    \/ \E p \in Procs : ForceEnter(p)
    \/ \E p \in Procs :
          ForceReplyFrom(p, {r \in AuthReplies :
                               r.transport \/ r.body.access_token = "T1"})
    \/ \E p \in Procs : SetLock(p)
    \/ \E p \in Procs : SetStore(p)
    \/ \E p \in Procs : RotLock(p)
    \/ \E p \in Procs : RotStore(p)

SpecLive ==
    /\ Init /\ [][NextLive]_vars
    /\ \A p \in Procs :
          /\ WF_vars(\/ AuthReplyFrom(p, {r \in AuthReplies :
                                            r.transport
                                               \/ r.body.access_token = "T1"})
                      \/ ForceReplyFrom(p, {r \in AuthReplies :
                                             r.transport
                                               \/ r.body.access_token = "T1"})
                      \/ ReqSend(p) \/ ReqReply(p)
                      \/ SetStore(p) \/ RotStore(p))
          /\ SF_vars(GateEnter(p) \/ ForceEnter(p) \/ SetLock(p)
                        \/ RotLock(p))

(***************************************************************************)
(* The scenario of simultaneous gate callers: every caller has invoked     *)
(* getValidToken and waits for the mutex, while the stored token is empty  *)
(* (a new client) or has under five minutes left or is past its expiry.    *)
(* The clock stands still.                                                 *)
(***************************************************************************)
StaleStores ==
    { <<"", "", ZeroTime, 0>>,
      <<"T1", "U1", TokenLifetime, TokenLifetime - RefreshMargin + 1>>,
      <<"T1", "U1", TokenLifetime, TokenLifetime + 1>> }

InitGate ==
    /\ \E s \in StaleStores :
         /\ accessToken = s[1]
         /\ instanceURL = s[2]
         /\ tokenExpiry = s[3]
         /\ now = s[4]
    /\ mu = None
    /\ op = [p \in Callers |-> "getValidToken"]
    /\ pc = [p \in Callers |-> "gate"]
    /\ caseID = ""
    /\ refreshToken = ConfiguredRefreshToken
    /\ IdleLocals

NextGate ==
    \/ \E p \in Callers : GateEnter(p)
    \/ \E p \in Callers : AuthReply(p)

SpecGate == InitGate /\ [][NextGate]_vars

(***************************************************************************)
(* The callers calling Request on a client whose stored token, T0 issued   *)
(* by an earlier exchange, is within its validity but no longer accepted   *)
(* by the API endpoint; the login endpoint never issues T0 again.  The     *)
(* clock stands still.                                                     *)
(***************************************************************************)
InitStale ==
    /\ accessToken = "T0"
    /\ instanceURL = "U0"
    /\ tokenExpiry = TokenLifetime
    /\ now = 0
    /\ mu = None
    /\ op = [p \in Callers |-> "none"]
    /\ pc = [p \in Callers |-> "idle"]
    /\ caseID = ""
    /\ refreshToken = ConfiguredRefreshToken
    /\ IdleLocals

NextStale ==
    \/ \E p \in Procs : CallRequest(p)
    \/ \E p \in Procs : GateEnter(p)
    \/ \E p \in Procs : AuthReply(p)
    \/ \E p \in Procs : ReqSend(p)
    \/ \E p \in Procs : ReqReply(p)
    \/ \E p \in Procs : ForceEnter(p)
    \/ \E p \in Procs : ForceReply(p)

SpecStale == InitStale /\ [][NextStale]_vars

(***************************************************************************)
(* The domain operations (client.go:92-501, models.go:155-164).  Each is   *)
(* a frame around one call of a dispatch path: it validates its arguments, *)
(* calls the dispatch path, and makes its result of what that returned.    *)
(***************************************************************************)
\* SetCaseIDValue storing whatever it is given
SetCaseIDUnguarded(id, cur) == id

\* SetCaseID (models.go:155-159): the Case-ID it leaves
SetCaseIDValue(id, cur) == IF id # "" THEN id ELSE cur

\* EffectiveParentId preferring the session Case-ID to the caller's
EffectiveParentIdSessionFirst(parent, cid) == IF cid # "" THEN cid ELSE parent

\* EmailMessage (client.go:480-482): the ParentId it posts
EffectiveParentId(parent, cid) ==
    IF parent = "" /\ cid # "" THEN cid ELSE parent

\* EmailMessage (client.go:475-477): the Status it posts
EffectiveStatus(status) == IF status = 0 THEN DefaultEmailStatus ELSE status

\* ExceedsLimit rejecting a file of exactly the limit
ExceedsLimitInclusive(n) == n >= MaxAttachmentSize

\* UploadAttachment's test of the size (client.go:373)
ExceedsLimit(n) == n > MaxAttachmentSize

\* UploadAttachment (client.go:337-390): the error of its checks before the
\* request, "" when it goes on to send.  A directory opens and fails at
\* io.ReadAll; a device that reads as empty passes them all
UploadValidation(parent, path) ==
    LET f == FileAt(path)
    IN IF parent = "" THEN "parent ID is required"
       ELSE IF path = "" THEN "file path is required"
       ELSE IF f.kind = "missing" THEN "file does not exist: " \o path
       ELSE IF f.kind = "unreadable"
            THEN "failed to open file " \o path \o ": permission denied"
       ELSE IF ExceedsLimit(f.size)
            THEN "file size exceeds 25MB limit: " \o ToString(f.size)
                     \o " bytes"
       ELSE IF f.kind = "dir" THEN "failed to read file: is a directory"
       ELSE ""

\* AttachmentValidation without the test of the session Case-ID
AttachmentValidationNoCaseCheck(path, cid) ==
    IF path = "" THEN "file path is required" ELSE ""

\* CreateAttachment (client.go:246-255): the error of its own checks
AttachmentValidation(path, cid) ==
    IF path = "" THEN "file path is required"
    ELSE IF cid = "" THEN "no case ID available, create a case first"
    ELSE ""

\* CreateCase (client.go:115-156): its result from what the strict dispatch
\* path returned
CreateCaseResult(f, r) ==
    IF r.err # ""
    THEN Result(f, "failed to create case: " \o r.err, "")
    ELSE IF r.http.Body = BrokenBody
    THEN Result(f, "failed to read response body", "")
    ELSE IF JsonParse(r.http.Body).kind # "object"
    THEN Result(f, "failed to decode response", "")
    ELSE Result(f, "", JsonId(r.http.Body))

\* EmailMessage (client.go:484-500)
EmailMessageResult(f, r) ==
    IF r.err # ""
    THEN Result(f, "failed to create email message: " \o r.err, "")
    ELSE IF JsonParse(r.http.Body).kind # "object"
    THEN Result(f, "failed to decode response", "")
    ELSE Result(f, "", JsonId(r.http.Body))

\* GetCase (client.go:316-332) and Query (client.go:292-309): the error of
\* doRequest is passed on as it is
ReadResult(f, r) ==
    IF r.err # ""
    THEN Result(f, r.err, "")
    ELSE IF JsonParse(r.http.Body).kind # "object"
    THEN Result(f, IF f.op = "Query" THEN "failed to decode query response"
                   ELSE "failed to decode response", "")
    ELSE Result(f, "", JsonId(r.http.Body))

\* CaseIDAfterRead remembering the case that was read
CaseIDAfterReadStoring(out, cid) == IF out.id # "" THEN out.id ELSE cid

\* c.caseID after GetCase or Query returned out: neither assigns it
\* (client.go:290-333)
CaseIDAfterRead(out, cid) == cid

\* the error UploadAttachment makes of a decoded answer with success=false
\* (client.go:443-458)
RefusalText(body) ==
    LET e == JsonErrors(body)
    IN IF e.len > 0
       THEN "Salesforce API error: " \o e.Message \o " (code: "
                \o e.ErrorCode \o ")"
       ELSE "Salesforce API error"

\* UploadAttachment (client.go:405-467): its result from what Request
\* returned
UploadResult(o, r) ==
    IF r.err # ""
    THEN Result(o, "API request failed: " \o r.err, "")
    ELSE IF r.resp.Code >= StatusBadRequest
    THEN Result(o, "attachment upload failed with status: "
                       \o StatusText(r.resp.Code), "")
    ELSE IF JsonParse(r.resp.Data).kind # "object"
    THEN Result(o, "failed to parse API response", "")
    ELSE IF ~JsonSuccess(r.resp.Data)
    THEN Result(o, RefusalText(r.resp.Data), "")
    ELSE Result(o, "", JsonId(r.resp.Data))

\* a domain operation with frame f calls operation o of a dispatch path
StartIn(p, f, o, m, d) ==
    /\ AtRest(p)
    /\ dom' = [dom EXCEPT ![p] = f]
    /\ op' = [op EXCEPT ![p] = o]
    /\ pc' = [pc EXCEPT ![p] = "gate"]
    /\ token' = [token EXCEPT ![p] = ""]
    /\ fullURL' = [fullURL EXCEPT ![p] = ""]
    /\ reqHeader' = [reqHeader EXCEPT ![p] = << >>]
    /\ ret' = [ret EXCEPT ![p] = NoRet]
    /\ snap' = [snap EXCEPT ![p] = NoSnap]
    /\ exch' = [exch EXCEPT ![p] = 0]
    /\ fexch' = [fexch EXCEPT ![p] = 0]
    /\ apiSent' = [apiSent EXCEPT ![p] = 0]
    /\ arg' = [arg EXCEPT ![p] = ""]
    /\ method' = [method EXCEPT ![p] = m]
    /\ headers' = [headers EXCEPT ![p] = NilHeaders]
    /\ data' = [data EXCEPT ![p] = d]
    /\ ctxDone' = [ctxDone EXCEPT ![p] = FALSE]
    /\ res' = [res EXCEPT ![p] = NoRes]
    /\ UNCHANGED <<store, mu, now, session, sentRT>>

\* a domain operation returns out: the frame is popped and the locals of
\* the dispatch call it made are gone
ReturnFrom(p, out) ==
    /\ res' = [res EXCEPT ![p] = out]
    /\ dom' = [dom EXCEPT ![p] = NoDom]
    /\ op' = [op EXCEPT ![p] = "none"]
    /\ pc' = [pc EXCEPT ![p] = "idle"]
    /\ ret' = [ret EXCEPT ![p] = NoRet]
    /\ snap' = [snap EXCEPT ![p] = NoSnap]
    /\ fexch' = [fexch EXCEPT ![p] = 0]
    /\ apiSent' = [apiSent EXCEPT ![p] = 0]
    /\ UNCHANGED <<store, mu, now, token, fullURL, reqHeader, exch, params,
                   refreshToken, sentRT>>

\* the domain operation called with frame f returns the error e from its
\* own checks, having called nothing
ReturnAtOnce(p, f, e) ==
    /\ AtRest(p)
    /\ res' = [res EXCEPT ![p] = Result(f, e, "")]
    /\ UNCHANGED <<store, mu, now, op, pc, locals, session, sentRT, dom>>

\* RacyCaseID reading the Case-ID that caller p's own CreateCase stored last
RacyCaseIDOwn(p) ==
    IF res[p].call.op = "CreateCase" /\ res[p].id # ""
    THEN {res[p].id} ELSE {caseID}

\* an unsynchronised read of c.caseID (client.go:480-481, models.go:163) by
\* caller p: the field as it is, or, when another caller's CreateCase is
\* about to store the identifier it decoded (client.go:152-154), a data race
\* whose read may see neither value
RacyCaseID(p) ==
    {caseID}
    \cup (IF \E q \in Callers \ {p} :
                /\ pc[q] = "done" /\ dom[q].op = "CreateCase"
                /\ CreateCaseResult(dom[q], ret[q]).id # ""
          THEN {TornID} ELSE {})

\* SetCaseID (models.go:155-159), without the mutex
SetCaseID(p) ==
    /\ AtRest(p)
    /\ \E id \in CaseIDs \cup {""} :
         /\ caseID' = SetCaseIDValue(id, caseID)
         /\ res' = [res EXCEPT ![p] =
                        Result(Frame("SetCaseID", id, ""), "", "")]
    /\ UNCHANGED <<store, mu, now, op, pc, locals, refreshToken, sentRT, dom>>

\* GetCaseID (models.go:162-164), without the mutex
GetCaseID(p) ==
    /\ AtRest(p)
    /\ \E cid \in RacyCaseID(p) :
         res' = [res EXCEPT ![p] =
                    Result(Frame("GetCaseID", "", ""), "", cid)]
    /\ UNCHANGED <<store, mu, now, op, pc, locals, session, sentRT, dom>>

\* CreateCase (client.go:92-115) up to its call of doRequestWithHeaders
CallCreateCase(p) ==
    StartIn(p, Frame("CreateCase", "", ""), "doRequestWithHeaders",
            "POST", "case")

\* CreateCase (client.go:116-156) from the return of doRequestWithHeaders
CreateCaseReturn(p) ==
    /\ pc[p] = "done"
    /\ dom[p].op = "CreateCase"
    /\ LET out == CreateCaseResult(dom[p], ret[p])
       IN /\ ReturnFrom(p, out)
          /\ caseID' = IF out.err = "" /\ out.id # ""
                       THEN SetCaseIDValue(out.id, caseID)
                       ELSE caseID

\* EmailMessage (client.go:471-484) up to its call of doRequest: the
\* defaults are filled in, c.caseID being read without the mutex
CallEmailMessage(p) ==
    \E parent \in {"", OwnParentID}, status \in EmailStatuses,
       cid \in RacyCaseID(p) :
       StartIn(p, Frame("EmailMessage", parent, ""), "doRequest", "POST",
               EmailParams(EffectiveParentId(parent, cid),
                           EffectiveStatus(status)))

\* EmailMessage (client.go:485-500) from the return of doRequest
EmailMessageReturn(p) ==
    /\ pc[p] = "done"
    /\ dom[p].op = "EmailMessage"
    /\ ReturnFrom(p, EmailMessageResult(dom[p], ret[p]))
    /\ caseID' = caseID

\* UploadAttachment (client.go:336-411) up to its call of Request, on
\* behalf of operation o
UploadStart(p, o, parent, path) ==
    IF UploadValidation(parent, path) # ""
    THEN ReturnAtOnce(p, Frame(o, parent, path),
                      UploadValidation(parent, path))
    ELSE StartIn(p, Frame(o, parent, path), "Request", "POST",
                 AttachmentData(parent, path))

CallUploadAttachment(p) ==
    \E parent \in {"", OwnParentID}, path \in FilePaths :
       UploadStart(p, "UploadAttachment", parent, path)

\* CreateAttachment (client.go:245-258) up to its call of UploadAttachment
CallCreateAttachment(p) ==
    \E path \in FilePaths, cid \in RacyCaseID(p) :
       IF AttachmentValidation(path, cid) # ""
       THEN ReturnAtOnce(p, Frame("CreateAttachment", "", path),
                         AttachmentValidation(path, cid))
       ELSE UploadStart(p, "CreateAttachment", cid, path)

\* UploadAttachment (client.go:412-467) from the return of Request;
\* CreateAttachment passes the result on (client.go:259-286)
UploadReturn(p) ==
    /\ pc[p] = "done"
    /\ dom[p].op \in {"UploadAttachment", "CreateAttachment"}
    /\ ReturnFrom(p, UploadResult(dom[p], ret[p]))
    /\ caseID' = caseID

\* GetCase (client.go:313-316) and Query (client.go:290-292) up to their
\* call of doRequest
CallGetCase(p) ==
    \E id \in CaseIDs :
       StartIn(p, Frame("GetCase", id, ""), "doRequest", "GET", NilData)

CallQuery(p) ==
    StartIn(p, Frame("Query", "", ""), "doRequest", "GET", NilData)

\* GetCase (client.go:317-332) and Query (client.go:293-309) from the return
\* of doRequest
ReadReturn(p) ==
    /\ pc[p] = "done"
    /\ dom[p].op \in {"GetCase", "Query"}
    /\ LET out == ReadResult(dom[p], ret[p])
       IN /\ ReturnFrom(p, out)
          /\ caseID' = CaseIDAfterRead(out, caseID)

\* the replies to the strict dispatch path include one whose body cannot be
\* read to its end
StrictReplyDom(p) ==
    StrictReplyFrom(p, DomApiReplies
                          \cup {ApiReply(FALSE, 201, BrokenBody)})

ReqReplyDom(p) == ReqReplyFrom(p, DomApiReplies)

\* one caller running the domain operations one after another
NextDom ==
    \/ \E p \in Solo : SetCaseID(p)
    \/ \E p \in Solo : GetCaseID(p)
    \/ \E p \in Solo : CallCreateCase(p)
    \/ \E p \in Solo : CallEmailMessage(p)
    \/ \E p \in Solo : CallUploadAttachment(p)
    \/ \E p \in Solo : CallCreateAttachment(p)
    \/ \E p \in Solo : CallGetCase(p)
    \/ \E p \in Solo : CallQuery(p)
    \/ \E p \in Solo : ReadReturn(p)
    \/ \E p \in Solo : GateEnter(p)
    \/ \E p \in Solo : AuthReply(p)
    \/ \E p \in Solo : StrictSend(p)
    \/ \E p \in Solo : StrictReplyDom(p)
    \/ \E p \in Solo : ReqSend(p)
    \/ \E p \in Solo : ReqReplyDom(p)
    \/ \E p \in Solo : ForceEnter(p)
    \/ \E p \in Solo : ForceReply(p)
    \/ \E p \in Solo : CreateCaseReturn(p)
    \/ \E p \in Solo : EmailMessageReturn(p)
    \/ \E p \in Solo : UploadReturn(p)

SpecDom == Init /\ [][NextDom]_vars

\* the replies to the strict dispatch path tried with two callers: a record
\* made, and a refusal
StrictReplyRace(p) ==
    StrictReplyFrom(p, {ApiReply(FALSE, 201, CreatedBody),
                        ApiReply(FALSE, 400, ErrorArrayBody)})

\* Two callers creating cases, setting and getting the session Case-ID and
\* sending e-mail messages on one client; the login endpoint issues T1 or
\* the exchange fails.
NextRace ==
    \/ \E p \in Procs : SetCaseID(p)
    \/ \E p \in Procs : GetCaseID(p)
    \/ \E p \in Procs : CallCreateCase(p)
    \/ \E p \in Procs : CallEmailMessage(p)
    \/ \E p \in Procs : GateEnter(p)
    \/ \E p \in Procs :
          AuthReplyFrom(p, {r \in AuthReplies :
                              r.transport \/ r.body.access_token = "T1"})
    \/ \E p \in Procs : StrictSend(p)
    \/ \E p \in Procs : StrictReplyRace(p)
    \/ \E p \in Procs : CreateCaseReturn(p)
    \/ \E p \in Procs : EmailMessageReturn(p)

SpecRace == Init /\ [][NextRace]_vars

(***************************************************************************)
(* Properties.                                                             *)
(***************************************************************************)
Done(p, o) == pc[p] = "done" /\ op[p] = o

\* exchanges sent to the login endpoint by the gate callers so far
RECURSIVE SumExch(_)
SumExch(S) ==
    IF S = {} THEN 0
    ELSE LET p == CHOOSE q \in S : TRUE IN exch[p] + SumExch(S \ {p})

GotToken(p) == Done(p, "getValidToken") /\ ret[p].err = "" /\ ret[p].token # ""
GotEmpty(p) == Done(p, "getValidToken") /\ ret[p].err = "" /\ ret[p].token = ""
GotError(p) == Done(p, "getValidToken") /\ ret[p].err # ""

\* C1 as stated: once all the simultaneous callers of getValidToken have
\* returned, exactly one exchange was sent to the login endpoint and every
\* caller returned the same refreshed token.
C1_OneExchangeSameToken ==
    (\A p \in Callers : pc[p] = "done") =>
        /\ SumExch(Callers) = 1
        /\ \A p, q \in Callers : GotToken(p) /\ ret[p].token = ret[q].token

\* C1 amended: the simultaneous callers send their exchanges one at a time;
\* every caller whose exchange fails or delivers no access token has sent
\* one of its own, at most one caller's exchange installs a token, no
\* exchange is sent after it, and all callers that get a token get that one.
C1_OneInstallingExchange ==
    LET returned == {p \in Callers : pc[p] = "done"}
        installers == {p \in Callers : GotToken(p) /\ exch[p] = 1}
    IN /\ Cardinality({p \in Callers : pc[p] = "auth"}) <= 1
       /\ Cardinality(installers) <= 1
       /\ \A p \in Callers : GotError(p) \/ GotEmpty(p) => exch[p] = 1
       /\ \A p, q \in Callers :
              GotToken(p) /\ GotToken(q) => ret[p].token = ret[q].token
       /\ \A p \in Callers : GotToken(p) => ret[p].token = accessToken
       /\ SumExch(returned) =
              Cardinality({p \in Callers : GotError(p) \/ GotEmpty(p)})
              + Cardinality(installers)

\* C1 witness: all callers have returned the same token and one exchange
\* was sent
C1_Witness ==
    /\ \A p \in Callers : GotToken(p) /\ ret[p].token = accessToken
    /\ SumExch(Callers) = 1

\* the callers inside a section guarded by the mutex: the gate's and the
\* forced refresh's exchange, and the setter's assignment
InCritical(p) == pc[p] \in {"auth", "fauth", "setstore"}

\* C2: at most one caller is inside the check-and-refresh critical section
\* of getValidToken or forceTokenRefresh, so at most one exchange is in
\* flight, and while it is there no other caller can enter.
C2_MutualExclusion ==
    /\ \A p, q \in Callers : InCritical(p) /\ InCritical(q) => p = q
    /\ \A p \in Callers :
         InCritical(p) =>
            \A q \in Callers \ {p} :
               ~ENABLED GateEnter(q) /\ ~ENABLED ForceEnter(q)

\* C2 witness: one caller's exchange is in flight while another waits for
\* the mutex at the gate
C2_Witness ==
    \E p, q \in Procs : p # q /\ pc[p] \in {"auth", "fauth"} /\ pc[q] = "gate"

\* C3: a Request that got 401 and whose forced refresh succeeded returns the
\* envelope with Success=false and Code=401 and a nil error.
C3_401RefreshOk ==
    \A p \in Procs :
       Done(p, "Request") /\ ret[p].reply.status = 401
          /\ fexch[p] = 1 /\ ret[p].refreshErr = ""
       => /\ ret[p].err = ""
          /\ ~ret[p].resp.isNil
          /\ ret[p].resp.Success = FALSE
          /\ ret[p].resp.Code = 401

\* C3 witness: a Request returned after a 401 and a successful forced
\* refresh that installed a token
C3_Witness ==
    \E p \in Procs :
       /\ Done(p, "Request") /\ ret[p].reply.status = 401
       /\ fexch[p] = 1 /\ ret[p].refreshErr = ""
       /\ accessToken # ""

\* C4: a Request that got 401 and whose forced refresh failed returns the
\* original 401 envelope (Raw is the 401 body) and a nil error.
C4_401RefreshFailed ==
    \A p \in Procs :
       Done(p, "Request") /\ ret[p].reply.status = 401
          /\ fexch[p] = 1 /\ ret[p].refreshErr # ""
       => /\ ret[p].err = ""
          /\ ~ret[p].resp.isNil
          /\ ret[p].resp.Success = FALSE
          /\ ret[p].resp.Code = 401
          /\ ret[p].resp.Raw = ret[p].reply.body

\* C4 witness: a Request returned after a 401 and a failed forced refresh
C4_Witness ==
    \E p \in Procs :
       /\ Done(p, "Request") /\ ret[p].reply.status = 401
       /\ fexch[p] = 1 /\ ret[p].refreshErr # ""

\* C5: a call of Request sends at most one request to the API endpoint,
\* whatever the status; after a 401 the token is refreshed and the request
\* is not sent again.
C5_NoRetry ==
    \A p \in Procs :
       /\ apiSent[p] <= 1
       /\ pc[p] \in {"force", "fauth"} => apiSent[p] = 1
       /\ Done(p, "Request") /\ ret[p].reply.status # 0 => apiSent[p] = 1

\* C5 witness: a Request returned after a 401 and a forced refresh, having
\* sent one request
C5_Witness ==
    \E p \in Procs :
       /\ Done(p, "Request") /\ ret[p].reply.status = 401
       /\ fexch[p] = 1 /\ apiSent[p] = 1

\* the gate has just returned to caller p without error (primed state)
GateReturnsOk(p) ==
    /\ pc[p] \in {"gate", "auth"}
    /\ \/ op[p] = "Request" /\ pc'[p] = "build"
       \/ op[p] = "getValidToken" /\ pc'[p] = "done" /\ ret'[p].err = ""

\* C6: when the exchange made by the gate fails, getValidToken returns an
\* error (and no token) and the token store is what the gate found when it
\* entered.
C6_FailedRefreshKeepsStore ==
    [][\A p \in Procs :
          pc[p] = "auth" /\ pc'[p] # "auth" =>
             \/ GateReturnsOk(p)
             \/ /\ pc'[p] = "done"
                /\ ret'[p].err # ""
                /\ ret'[p].token = ""
                /\ accessToken' = snap[p].tok
                /\ instanceURL' = snap[p].url
                /\ tokenExpiry' = snap[p].exp]_vars

\* C6 witness: getValidToken has returned an error after its exchange, the
\* store still holding the expiring token the gate found
C6_Witness ==
    \E p \in Procs :
       /\ Done(p, "getValidToken") /\ ret[p].err # "" /\ exch[p] = 1
       /\ snap[p].tok # ""
       /\ store = <<snap[p].tok, snap[p].url, snap[p].exp>>

\* C7: the gate sends an exchange if and only if the stored token is empty
\* or has under 5 minutes left; otherwise it returns the stored token, and
\* the store is untouched.
C7_RefreshIffStale ==
    [][\A p \in Procs :
          pc[p] = "gate" /\ pc'[p] # "gate" =>
             LET stale == accessToken = "" \/ tokenExpiry - now < RefreshMargin
             IN /\ pc'[p] = "auth" <=> stale
                /\ stale => exch'[p] = exch[p] + 1
                /\ ~stale =>
                     /\ GateReturnsOk(p)
                     /\ exch'[p] = 0
                     /\ UNCHANGED store
                     /\ op[p] = "Request" => token'[p] = accessToken
                     /\ op[p] = "getValidToken" =>
                           ret'[p].token = accessToken]_vars

\* C7 witness: getValidToken returned the stored token, which has exactly
\* 5 minutes left, without an exchange
C7_Witness ==
    \E p \in Procs :
       /\ Done(p, "getValidToken") /\ ret[p].err = "" /\ exch[p] = 0
       /\ ret[p].token = accessToken /\ accessToken # ""
       /\ tokenExpiry - now = RefreshMargin

\* token and URL are those of one response of the login endpoint
FromOneResponse ==
    \E b \in TokenBodies :
       accessToken = b.access_token /\ instanceURL = b.instance_url

\* C8 as stated: in every reachable state the access token and the
\* instance URL come from the same authentication response (or are both
\* still unset).
C8_TokenAndURLTogether ==
    \/ accessToken = "" /\ instanceURL = ""
    \/ FromOneResponse

\* C8 amended: a non-empty access token is installed only together with the
\* instance URL of the same response, so a non-empty token is held with the
\* URL of its response unless SetInstanceURL has replaced the URL since.
C8_TokenInstalledWithURL ==
    [][/\ accessToken' # accessToken /\ accessToken' # "" => FromOneResponse'
       /\ accessToken' # "" =>
             instanceURL' \in AdminURLs \/ FromOneResponse']_vars

\* C8 witness: a forced refresh has replaced token and URL by those of its
\* response
C8_Witness ==
    \E p \in Procs :
       /\ Done(p, "Request") /\ fexch[p] = 1 /\ ret[p].refreshErr = ""
       /\ accessToken # "" /\ FromOneResponse

\* C9: whenever the gate returns a token without error, the stored expiry is
\* at least 5 minutes in the future at that moment.
C9_ValidatedNotExpired ==
    [][\A p \in Procs :
          GateReturnsOk(p) => tokenExpiry' - now' >= RefreshMargin]_vars

\* C9 witness: getValidToken returned the token its exchange installed, the
\* expiry 55 minutes ahead
C9_Witness ==
    \E p \in Procs :
       /\ Done(p, "getValidToken") /\ ret[p].err = "" /\ exch[p] = 1
       /\ ret[p].token # "" /\ tokenExpiry - now = TokenLifetime

\* C10: every read of the shared token state is made with the mutex held:
\* the step of a dispatch path that reads c.instanceURL is taken by the
\* holder of the mutex.
C10_ReadsUnderLock ==
    [][\A p \in Procs : pc[p] = "build" /\ pc'[p] = "wait" => mu = p]_vars

\* a step of caller p inside its call of Request
CallerStep(p) ==
    \/ GateEnter(p) \/ AuthReply(p) \/ ReqSend(p) \/ ReqReply(p)
    \/ ForceEnter(p) \/ ForceReply(p)

\* C11: a call whose context is cancelled or past its deadline does not
\* block: wherever it is, also waiting to enter the gate that another caller
\* holds, it can take its next step at once; and it returns an error.
C11_CancelledCallNeverBlocks ==
    \A p \in Procs :
       /\ ctxDone[p] /\ ~AtRest(p) => ENABLED CallerStep(p)
       /\ ctxDone[p] /\ Done(p, "Request") => ret[p].err # ""

\* the gate of caller p's running or last call failed: its exchange got a
\* reply for which authenticate returns an error
GateFailed(p) == ret[p].login # NoLogin /\ AuthErr(ret[p].login) # ""

\* C12: when the gate fails, Request returns the error "failed to get valid
\* token" wrapping the authentication failure, with no envelope, and sends
\* no request to the API endpoint.
C12_GateFailureShortCircuits ==
    \A p \in Solo :
       op[p] = "Request" /\ GateFailed(p) =>
          /\ pc[p] = "done"
          /\ ret[p].err =
                "failed to get valid token: " \o AuthErr(ret[p].login)
          /\ ret[p].resp.isNil
          /\ apiSent[p] = 0

\* C12 witness: a Request returned the wrapped rejection of the login
\* endpoint without sending its request
C12_Witness ==
    \E p \in Solo :
       /\ Done(p, "Request") /\ ret[p].login.status = 400
       /\ ret[p].err =
             "failed to get valid token: auth failed: invalid_grant - expired"
       /\ apiSent[p] = 0

\* caller p has returned from the strict dispatch path
StrictDone(p) == pc[p] = "done" /\ op[p] \in StrictOps

\* C13: for a failing API response the strict dispatch path reports
\* "API error: m (code: C)" whether the body is the error object or a
\* one-element array holding it.
C13_ArrayAndObjectClassifiedAlike ==
    \A p \in Solo :
       StrictDone(p) /\ ret[p].reply.status >= 400
          /\ ret[p].reply.body \in {ErrorObjectBody, ErrorArrayBody}
       => ret[p].err = "API error: m (code: C)"

\* C14: for a failing API response whose body is not JSON, is an empty
\* array, or is a JSON object without message and errorCode, the strict
\* dispatch path reports "request failed with status: <status text>".
C14_UnclassifiableGivesStatusLine ==
    \A p \in Solo :
       StrictDone(p) /\ ret[p].reply.status >= 400
          /\ ret[p].reply.body \in {TextBody, EmptyArrayBody, JsonBody}
       => ret[p].err =
             "request failed with status: " \o StatusText(ret[p].reply.status)

\* C15: the strict dispatch path returns an error and no response for every
\* status of 400 or more, and the response and no error for every status
\* below 400.
C15_StrictErrorFrom400 ==
    \A p \in Solo :
       StrictDone(p) /\ ret[p].reply.status # 0 =>
          IF ret[p].reply.status >= 400
          THEN ret[p].err # "" /\ ret[p].http.isNil
          ELSE /\ ret[p].err = ""
               /\ ~ret[p].http.isNil
               /\ ret[p].http.StatusCode = ret[p].reply.status
               /\ ret[p].http.Body = ret[p].reply.body

\* C15 witness: doRequestWithHeaders returned an error and no response for
\* a reply with status 400
C15_Witness ==
    \E p \in Solo :
       /\ Done(p, "doRequestWithHeaders") /\ ret[p].reply.status = 400
       /\ ret[p].err # "" /\ ret[p].http.isNil

\* C16: Request, given an API response with status 400 or more, returns the
\* error "API error: m (code: C)" when the body is the error object and
\* "request failed with status: <status text>" when the body is not JSON.
C16_RequestErrorFrom400 ==
    \A p \in Solo :
       Done(p, "Request") /\ ret[p].reply.status >= 400 =>
          /\ ret[p].reply.body = ErrorObjectBody =>
                ret[p].err = "API error: m (code: C)"
          /\ ret[p].reply.body \in {TextBody, EmptyBody} =>
                ret[p].err = "request failed with status: "
                                 \o StatusText(ret[p].reply.status)

\* the bodies that are syntactically valid JSON
ValidJsonBodies == {JsonBody, ErrorObjectBody, ErrorArrayBody, EmptyArrayBody}

\* C17: the envelope Request returns has Success true exactly for a status
\* in 200..299, Raw equal to the response body, and Data equal to the body
\* when that is valid JSON and empty otherwise.
C17_EnvelopeFromReply ==
    \A p \in Solo :
       op[p] = "Request" /\ ~ret[p].resp.isNil =>
          LET r == ret[p].reply
              e == ret[p].resp
          IN /\ e.Code = r.status
             /\ e.Success <=> (r.status >= 200 /\ r.status <= 299)
             /\ e.Raw = r.body
             /\ r.body \in ValidJsonBodies => e.Data = r.body
             /\ r.body \notin ValidJsonBodies => e.Data = ""

\* C17 witness: Request returned the envelope of a 200 reply whose body is
\* not JSON: Success, Raw the body, Data empty
C17_Witness ==
    \E p \in Solo :
       /\ Done(p, "Request") /\ ret[p].reply = ApiReply(FALSE, 200, TextBody)
       /\ ret[p].resp.Success /\ ret[p].resp.Raw = TextBody
       /\ ret[p].resp.Data = ""

\* C18: Request encodes the payload exactly when it is not nil and the
\* method is POST, PUT or PATCH; when the encoding fails it returns the error
\* "failed to marshal request data" and sends nothing, and otherwise it
\* sends one request, with the encoded payload or without a body.
C18_MarshalFailureNotSent ==
    [][\A p \in Solo :
          pc[p] = "build" /\ pc'[p] # "build" =>
             LET encodes == data[p] # NilData
                               /\ method[p] \in {"POST", "PUT", "PATCH"}
             IN IF encodes /\ data[p] = "chan"
                THEN /\ pc'[p] = "done"
                     /\ ret'[p].err = "failed to marshal request data: "
                                          \o "json: unsupported type: chan int"
                     /\ ret'[p].resp.isNil
                     /\ apiSent'[p] = 0
                ELSE /\ pc'[p] = "wait"
                     /\ apiSent'[p] = 1
                     /\ ret'[p].err = ""
                     /\ encodes => ret'[p].reqBody = "{\"Subject\":\"s\"}"
                     /\ ~encodes => ret'[p].reqBody = ""]_vars

\* C18 witness: Request returned the marshalling error without sending
C18_Witness ==
    \E p \in Solo :
       /\ Done(p, "Request") /\ apiSent[p] = 0 /\ ret[p].resp.isNil
       /\ ret[p].err = "failed to marshal request data: "
                           \o "json: unsupported type: chan int"

\* the error of a rejected exchange
RejectionText(reply) ==
    IF reply.body.object /\ reply.body.error # ""
    THEN "auth failed: " \o reply.body.error \o " - "
             \o reply.body.error_description
    ELSE "auth failed with status: " \o StatusText(reply.status)

\* C19: authenticate rejects an answer of the login endpoint exactly when
\* its status is outside 200..299, and then fails with "auth failed: <error>
\* - <description>" when the body is a JSON object with a non-empty error
\* and with "auth failed with status: <status text>" otherwise.
C19_RejectsExactlyNon2xx ==
    \A p \in Solo :
       Done(p, "getValidToken") /\ exch[p] = 1 /\ ~ret[p].login.transport =>
          IF ret[p].login.status >= 200 /\ ret[p].login.status <= 299
          THEN ret[p].err # RejectionText(ret[p].login)
          ELSE ret[p].err = RejectionText(ret[p].login)

\* a 200 answer whose body does not decode into AuthResponse
MalformedTokenReply == [transport |-> FALSE, status |-> 200, body |-> GarbageBody]

C21_FreshFor50Minutes ==
    [][\A p \in Solo :
          /\ pc[p] = "auth" /\ pc'[p] = "done" /\ ret'[p].err = ""
                => tokenExpiry' = now + TokenLifetime
          /\ pc[p] = "gate" /\ pc'[p] # "gate" /\ tokenExpiry # ZeroTime
                => LET t == tokenExpiry - TokenLifetime
                   IN pc'[p] = "auth"
                         <=> now > t + (TokenLifetime - RefreshMargin)]_vars

\* C30: forceTokenRefresh clears token and expiry and sends an exchange
\* whatever the validity of the token it found; when that exchange fails the
\* store keeps the empty token and the zero expiry, and a gate call that
\* finds the store so sends an exchange.
C30_ForcedRefreshClearsFirst ==
    [][\A p \in Solo :
          /\ pc[p] = "force" /\ pc'[p] # "force"
                => /\ pc'[p] = "fauth"
                   /\ fexch'[p] = fexch[p] + 1
                   /\ accessToken' = "" /\ tokenExpiry' = ZeroTime
          /\ pc[p] = "fauth" /\ pc'[p] # "fauth" /\ ret'[p].refreshErr # ""
                => accessToken' = "" /\ tokenExpiry' = ZeroTime
          /\ pc[p] = "gate" /\ pc'[p] # "gate"
                /\ accessToken = "" /\ tokenExpiry = ZeroTime
                => pc'[p] = "auth" /\ exch'[p] = exch[p] + 1]_vars

\* C30 witness: the gate has sent an exchange on finding the store a failed
\* forced refresh left: the URL of an earlier authentication, no token and
\* the zero expiry, at the instant the valid token was replaced
C30_Witness ==
    \E p \in Solo :
       /\ pc[p] = "auth" /\ exch[p] = 1
       /\ snap[p].tok = "" /\ snap[p].exp = ZeroTime /\ snap[p].url # ""
       /\ snap[p].at = 0

\* C29: SetRefreshToken changes the stored refresh token and nothing of the
\* token store, it does so holding the mutex, and every exchange in flight
\* carries the refresh token stored last.
C29_RotationOnlyRefreshToken ==
    [][/\ refreshToken' # refreshToken =>
             \E p \in Procs :
                /\ op[p] = "SetRefreshToken" /\ mu = p
                /\ refreshToken' = arg[p]
       /\ \A p \in Procs :
             op[p] = "SetRefreshToken" /\ pc'[p] # pc[p] /\ ~AtRest(p)
                => UNCHANGED <<store, caseID>>
       /\ \A p \in Procs :
             pc'[p] \in {"auth", "fauth"} => sentRT'[p] = refreshToken']_vars

\* C29 witness: after SetRefreshToken has returned, another caller's
\* exchange is in flight with the rotated token, the token store holding
\* what an earlier authentication installed
C29_Witness ==
    \E p, q \in Procs :
       /\ pc[q] = "done" /\ op[q] = "SetRefreshToken"
       /\ pc[p] = "fauth"
       /\ sentRT[p] = arg[q] /\ sentRT[p] # ConfiguredRefreshToken
       /\ instanceURL # ""

\* the step in which caller p calls domain operation o: it either enters
\* the dispatch path with a frame of o or returns at once with a result of o
CalledNow(p, o) ==
    /\ AtRest(p)
    /\ \/ dom'[p].op = o
       \/ res'[p].call.op = o /\ res'[p] # res[p]

\* the step in which domain operation o of caller p returns from the
\* dispatch path
ReturnsNow(p, o) == dom[p].op = o /\ dom'[p] = NoDom

\* C22: when CreateCase decodes a result with the identifier 500X it returns
\* that result and the session Case-ID becomes 500X; when the result has no
\* identifier, cannot be decoded, or the request failed, the session Case-ID
\* is unchanged.
C22_CreateCaseStoresID ==
    [][\A p \in Solo :
          ReturnsNow(p, "CreateCase") =>
             IF ret[p].err = "" /\ ret[p].reply.body = CreatedBody
             THEN /\ res'[p].err = "" /\ res'[p].id = "500X"
                  /\ caseID' = "500X"
             ELSE /\ res'[p].id = ""
                  /\ caseID' = caseID]_vars

\* C22 witness: CreateCase has returned the case 500X made by the endpoint
\* and the session Case-ID is 500X
C22_Witness ==
    \E p \in Solo :
       /\ res[p] = Result(Frame("CreateCase", "", ""), "", "500X")
       /\ caseID = "500X"

\* C23: a non-empty session Case-ID never becomes empty; SetCaseID("")
\* leaves the Case-ID as it is, SetCaseID of a non-empty value stores that
\* value, and GetCaseID returns the stored value and leaves it.
C23_CaseIDNeverCleared ==
    [][/\ caseID # "" => caseID' # ""
       /\ \A p \in Solo :
             /\ CalledNow(p, "SetCaseID") =>
                   caseID' = IF res'[p].call.parentID = "" THEN caseID
                             ELSE res'[p].call.parentID
             /\ CalledNow(p, "GetCaseID") =>
                   res'[p].id = caseID /\ caseID' = caseID]_vars

\* C23 witness: SetCaseID("") has returned and the session Case-ID is still
\* set
C23_Witness ==
    \E p \in Solo :
       /\ res[p] = Result(Frame("SetCaseID", "", ""), "", "")
       /\ caseID # ""

\* the ParentId member of an encoded EmailMessageParams
PayloadParentId(body) ==
    CHOOSE x \in ParentIDs :
       \E n \in EmailStatuses \cup {DefaultEmailStatus} : body = EmailJson(x, n)

\* C24: the payload EmailMessage has posted carries the session Case-ID as
\* ParentId when the caller passed no ParentId and the session Case-ID is
\* set, and the caller's ParentId whenever the caller passed one.
C24_EmailParentId ==
    \A p \in Solo :
       dom[p].op = "EmailMessage" /\ pc[p] = "swait" =>
          /\ dom[p].parentID = "" /\ caseID # ""
                => PayloadParentId(ret[p].reqBody) = caseID
          /\ dom[p].parentID # ""
                => PayloadParentId(ret[p].reqBody) = dom[p].parentID

\* C24 witness: EmailMessage, called without ParentId while the session
\* Case-ID is 500X, has posted a payload with ParentId 500X
C24_Witness ==
    \E p \in Solo :
       /\ dom[p] = Frame("EmailMessage", "", "") /\ pc[p] = "swait"
       /\ caseID = "500X"
       /\ ret[p].reqBody = "{\"ParentId\":\"500X\",\"Status\":3}"

\* the frame a call made in this step was given
CallFrame(p) == IF dom'[p] # NoDom THEN dom'[p] ELSE res'[p].call

\* the call made in this step returned at once with error e, the dispatch
\* path not entered and the token store and session Case-ID untouched
RejectedAtOnce(p, e) ==
    /\ AtRest(p)'
    /\ res'[p].err = e
    /\ UNCHANGED <<store, mu, caseID, pc, exch, fexch, apiSent>>

\* CreateAttachment, called in this step with a session Case-ID, does what
\* UploadAttachment does with that Case-ID as parent
Delegates(p) ==
    LET path == CallFrame(p).filePath
    IN IF UploadValidation(caseID, path) # ""
       THEN RejectedAtOnce(p, UploadValidation(caseID, path))
       ELSE /\ dom'[p] = Frame("CreateAttachment", caseID, path)
            /\ op'[p] = "Request" /\ pc'[p] = "gate"
            /\ data'[p] = AttachmentData(caseID, path)

\* C25 as stated: CreateAttachment called while the session Case-ID is empty
\* fails with "no case ID available", without an exchange or a request; with
\* a Case-ID it delegates to UploadAttachment with that Case-ID as parent.
C25_NoCaseIDAlwaysReported ==
    [][\A p \in Solo :
          CalledNow(p, "CreateAttachment") =>
             IF caseID = ""
             THEN RejectedAtOnce(p, "no case ID available, create a case first")
             ELSE Delegates(p)]_vars

\* C25 amended: CreateAttachment called with an empty file path fails with
\* "file path is required" whatever the session Case-ID; called with a file
\* path while the session Case-ID is empty it fails with "no case ID
\* available, create a case first"; neither makes an exchange or a request.
\* With a Case-ID it delegates to UploadAttachment with that Case-ID as
\* parent.
C25_PathCheckedFirst ==
    [][\A p \in Solo :
          CalledNow(p, "CreateAttachment") =>
             IF caseID = ""
             THEN RejectedAtOnce(p,
                     IF CallFrame(p).filePath = ""
                     THEN "file path is required"
                     ELSE "no case ID available, create a case first")
             ELSE Delegates(p)]_vars

\* C25 witness: CreateAttachment, called with a file while the session
\* Case-ID is empty, has returned the error
C25_Witness ==
    \E p \in Solo :
       /\ res[p] = Result(Frame("CreateAttachment", "", "note.txt"),
                          "no case ID available, create a case first", "")
       /\ caseID = ""
       /\ AtRest(p)

\* arguments UploadAttachment is to reject before sending anything
BadUpload(parent, path) ==
    \/ parent = ""
    \/ path = ""
    \/ FileAt(path).kind # "regular"
    \/ FileAt(path).size > MaxAttachmentSize

\* C26: UploadAttachment called with an empty parent ID, an empty path, a
\* path that does not exist or is not a regular file, or a file over the
\* limit returns an error at once: no exchange, no request, token store and
\* session Case-ID unchanged.
C26_BadUploadRejectedLocally ==
    [][\A p \in Solo :
          /\ CalledNow(p, "UploadAttachment")
          /\ BadUpload(CallFrame(p).parentID, CallFrame(p).filePath)
          => /\ res'[p].err # ""
             /\ RejectedAtOnce(p, res'[p].err)]_vars

\* C27: UploadAttachment called with a parent and a regular file of exactly
\* 25*1024*1024 bytes goes on to send it; called with one of one byte more
\* it returns the size-limit error at once.
C27_SizeLimitBoundary ==
    [][\A p \in Solo :
          /\ CalledNow(p, "UploadAttachment")
          /\ CallFrame(p).parentID # ""
          /\ FileAt(CallFrame(p).filePath).kind = "regular"
          => LET n == FileAt(CallFrame(p).filePath).size
             IN /\ n = 25 * 1024 * 1024
                      => /\ dom'[p] = CallFrame(p)
                         /\ op'[p] = "Request" /\ pc'[p] = "gate"
                /\ n = 25 * 1024 * 1024 + 1
                      => RejectedAtOnce(p,
                            "file size exceeds 25MB limit: 26214401 bytes")]_vars

\* C27 witness: the upload of the file of exactly the limit has been
\* accepted by the endpoint
C27_Witness ==
    \E p \in Solo :
       res[p] = Result(Frame("UploadAttachment", OwnParentID, "max.bin"),
                       "", "500X")

\* C28: when the endpoint answers an upload with an error status and the
\* one-element error array, UploadAttachment returns an error holding
\* "API error: m (code: C)"; when it answers with success=false and that
\* error, UploadAttachment returns an error with the message and the code.
C28_UploadErrorClassified ==
    [][\A p \in Solo :
          ReturnsNow(p, "UploadAttachment") /\ ~ret[p].reply.transport =>
             /\ ret[p].reply.status >= 400 /\ ret[p].reply.body = ErrorArrayBody
                   => res'[p].err \in
                         {ApiErrorText("m", "C"),
                          "API request failed: " \o ApiErrorText("m", "C")}
             /\ ret[p].reply.status < 400
                   /\ ret[p].reply.body = UploadRefusedBody
                   => res'[p].err = "Salesforce API error: m (code: C)"]_vars

\* C31: the strict dispatch path returns on a 401 reply without a forced
\* refresh, the token store as it was; and a strict call that finds the
\* stored token valid sends that token without an exchange.
C31_Strict401NoRefresh ==
    [][\A p \in Solo :
          /\ pc[p] = "swait" /\ pc'[p] # "swait"
                => /\ pc'[p] = "done"
                   /\ fexch'[p] = 0 /\ exch'[p] = exch[p]
                   /\ mu' = mu
                   /\ UNCHANGED store
          /\ op[p] \in StrictOps /\ pc[p] = "gate" /\ pc'[p] # "gate"
                /\ accessToken # "" /\ tokenExpiry - now >= RefreshMargin
                => /\ pc'[p] = "sbuild"
                   /\ token'[p] = accessToken
                   /\ UNCHANGED store]_vars

\* C31 witness: a strict call has returned the error of a 401 reply and the
\* store still holds a token that is valid
C31_Witness ==
    \E p \in Solo :
       /\ StrictDone(p)
       /\ ret[p].reply.status = StatusUnauthorized
       /\ ret[p].err # ""
       /\ accessToken # "" /\ tokenExpiry - now >= RefreshMargin

\* the values the caller's headers hold for the header stored under key k
SuppliedFor(hs, k) == { e[2] : e \in { x \in hs : CanonicalKey(x[1]) = k } }

\* Request sends its request
SendsNow(p) == op[p] = "Request" /\ pc[p] = "build" /\ pc'[p] = "wait"

\* C32: in the request Request sends, each of Authorization, Accept,
\* Content-Type and Content-Length holds a value the caller supplied for it
\* when the caller supplied one, and otherwise its default; the defaults of
\* Content-Type and Content-Length are there only when a body was serialized.
C32_CallerHeadersOverride ==
    [][\A p \in Solo : SendsNow(p) =>
          LET hdr == reqHeader'[p]
              serialized == Serializes(method[p], data[p])
              Default(k) ==
                  IF k = "Authorization" THEN "Bearer " \o token[p]
                  ELSE IF k = "Accept" THEN "application/json"
                  ELSE IF k = "Content-Type" THEN "application/json"
                  ELSE ToString(Len(ret'[p].reqBody))
          IN  \A k \in {"Authorization", "Accept",
                        "Content-Type", "Content-Length"} :
                 IF SuppliedFor(headers[p], k) # {}
                 THEN k \in DOMAIN hdr /\ hdr[k] \in SuppliedFor(headers[p], k)
                 ELSE IF k \in {"Authorization", "Accept"} \/ serialized
                 THEN k \in DOMAIN hdr /\ hdr[k] = Default(k)
                 ELSE k \notin DOMAIN hdr]_vars

\* C32 witness: a request with a serialized body is out whose Content-Type
\* is the caller's and whose Authorization is the default
C32_Witness ==
    \E p \in Solo :
       /\ op[p] = "Request" /\ pc[p] = "wait"
       /\ ret[p].reqBody # ""
       /\ reqHeader[p]["Content-Type"] = "text/plain"
       /\ reqHeader[p]["Content-Length"] = "7"
       /\ reqHeader[p]["Authorization"] = "Bearer " \o token[p]
       /\ token[p] # ""

\* C33: whenever the gate returns without an error, to getValidToken's caller
\* or to a dispatch path, the token it hands over is not empty.
C33_GateTokenNonEmpty ==
    [][\A p \in Solo :
          pc[p] \in {"gate", "auth"} =>
             /\ pc'[p] \in {"build", "sbuild"} => token'[p] # ""
             /\ op[p] = "getValidToken" /\ pc'[p] = "done"
                   /\ ret'[p].err = ""
                   => ret'[p].token # ""]_vars

\* the domain operations that are said to leave the session Case-ID alone
CaseIDReaders ==
    {"GetCase", "Query", "EmailMessage", "UploadAttachment",
     "CreateAttachment"}

\* C39: every step of CreateCase except a return without error leaves the
\* session Case-ID as it is, and so does every step of GetCase, Query,
\* EmailMessage, UploadAttachment and CreateAttachment, from the call to
\* the return.
C39_CaseIDFrame ==
    [][\A p \in Solo :
          /\ dom[p].op = "CreateCase"
                /\ ~(ReturnsNow(p, "CreateCase") /\ res'[p].err = "")
                => caseID' = caseID
          /\ \A o \in CaseIDReaders :
                dom[p].op = o \/ CalledNow(p, o) => caseID' = caseID]_vars

\* C39 witness: CreateCase has returned the error of a body it could not
\* read, which began with an identifier, and the session Case-ID is the one
\* set before
C39_Witness ==
    \E p \in Solo :
       /\ res[p].call.op = "CreateCase"
       /\ res[p].err = "failed to read response body"
       /\ caseID = "500Y"

\* C34: the bearer token of every request that Request has sent and the
\* instance URL the request is addressed to are those of one response of
\* the login endpoint.
C34_RequestFromOneResponse ==
    \A p \in Procs :
       op[p] = "Request" /\ pc[p] = "wait" =>
          \E b \in TokenBodies :
             token[p] = b.access_token /\ fullURL[p] = b.instance_url

\* caller p is in, or has returned from, a Request that was answered by 401
\* and carried token t
Refused(p, t) ==
    /\ op[p] = "Request" /\ pc[p] \in {"force", "fauth", "done"}
    /\ ret[p].reply.status = StatusUnauthorized
    /\ token[p] = t

\* C35 as stated: of the callers whose requests carrying one token were
\* answered by 401 at most one performs a forced exchange, and the token a
\* forced refresh clears is the one its caller's request carried (or none),
\* never one installed since.
C35_OneForcedExchangePerToken ==
    [][/\ \A p, q \in Procs :
             p # q /\ Refused(p, "T0") /\ Refused(q, "T0")
                => ~(fexch[p] >= 1 /\ fexch[q] >= 1)
       /\ \A p \in Procs :
             pc[p] = "force" /\ pc'[p] = "fauth"
                => accessToken \in {token[p], ""}]_vars

\* C35 amended: every Request answered by 401 goes on to forceTokenRefresh,
\* which takes the free mutex, clears token and expiry whatever they are and
\* performs an exchange of its own; the call returns after exactly one
\* forced exchange, the mutex released.
C35_EachRefusedCallRefreshes ==
    [][\A p \in Procs :
          /\ pc[p] = "wait" /\ pc'[p] # "wait"
                /\ ret'[p].reply.status = StatusUnauthorized
                => pc'[p] = "force" /\ fexch'[p] = 0
          /\ pc[p] = "force" /\ pc'[p] # "force"
                => /\ pc'[p] = "fauth"
                   /\ mu = None /\ mu' = p
                   /\ fexch'[p] = fexch[p] + 1
                   /\ accessToken' = "" /\ tokenExpiry' = ZeroTime
          /\ pc[p] = "fauth" /\ pc'[p] # "fauth"
                => pc'[p] = "done" /\ fexch'[p] = 1 /\ mu' = None]_vars

\* C35 witness: two callers have returned from requests that carried the
\* same token and were answered by 401, each after a forced exchange of its
\* own
C35_Witness ==
    \E p, q \in Procs :
       /\ p # q
       /\ Refused(p, "T0") /\ Refused(q, "T0")
       /\ pc[p] = "done" /\ pc[q] = "done"
       /\ fexch[p] = 1 /\ fexch[q] = 1

\* a forced refresh for token t has completed: its caller has returned
ForcedRefreshDone(t) ==
    \E q \in Procs : Refused(q, t) /\ pc[q] = "done" /\ fexch[q] = 1

\* C36: once a forced refresh for T0 has completed, with or without a new
\* token, the store does not hold T0, and it never holds T0 again as long as
\* the login endpoint does not issue it; a Request passing the gate while
\* the store does not hold T0 is not handed T0, and the bearer token of the
\* request it sends is the token the gate handed it.
C36_StaleTokenNotSentAgain ==
    [][/\ ForcedRefreshDone("T0") => accessToken # "T0"
       /\ accessToken # "T0" => accessToken' # "T0"
       /\ \A p \in Procs :
             /\ pc[p] \in {"gate", "auth"} /\ pc'[p] = "build"
                   /\ accessToken # "T0"
                   => token'[p] # "T0"
             /\ SendsNow(p)
                   => reqHeader'[p]["Authorization"] = "Bearer " \o token[p]
      ]_vars

\* C36 witness: a forced refresh for T0 has failed and its caller returned,
\* and another caller has a request out with a token issued since
C36_Witness ==
    \E p, q \in Procs :
       /\ p # q
       /\ Refused(q, "T0") /\ pc[q] = "done" /\ ret[q].refreshErr # ""
       /\ op[p] = "Request" /\ pc[p] = "wait"
       /\ token[p] = "T1"
       /\ reqHeader[p]["Authorization"] = "Bearer T1"

\* caller p is about to call c.mu.Lock()
AtLock(p) == pc[p] \in {"gate", "force", "setlock", "rotlock"}

\* C37: a caller that is not inside an operation does not hold the mutex; a
\* caller about to call Lock does not hold it, and the mutex is taken only
\* when it is free; and every call of getValidToken, Request (with its
\* forced refresh) and the setters returns.
C37_LockReleasedCallsTerminate ==
    /\ [](\A p \in Procs : AtRest(p) \/ AtLock(p) => mu # p)
    /\ [][\A p \in Procs : mu' = p /\ mu # p => mu = None /\ AtLock(p)]_vars
    /\ \A p \in Procs : ~AtRest(p) ~> AtRest(p)

\* C37 witness: a caller has returned the error of a failed exchange while
\* the other waits in Lock, and the mutex is free
C37_Witness ==
    \E p, q \in Procs :
       /\ Done(p, "getValidToken") /\ ret[p].err # ""
       /\ AtLock(q)
       /\ mu = None

\* caller p, whose last operation was a CreateCase that returned the
\* identifier x, calls EmailMessage without a ParentId
EmailAfterCreate(p, x) ==
    /\ AtRest(p)
    /\ res[p].call.op = "CreateCase" /\ res[p].err = "" /\ res[p].id = x
    /\ dom'[p] = Frame("EmailMessage", "", "")

\* another caller's CreateCase is about to store the identifier it decoded
OtherStores(p) ==
    \E q \in Procs \ {p} :
       /\ pc[q] = "done" /\ dom[q].op = "CreateCase"
       /\ CreateCaseResult(dom[q], ret[q]).id # ""

\* C38 as stated: when a caller's CreateCase has returned the identifier x
\* and the caller then calls EmailMessage without a ParentId, the payload
\* carries x as ParentId, whatever the other callers do.
C38_OwnCaseIDUsed ==
    [][\A p \in Procs : \A x \in CaseIDs :
          EmailAfterCreate(p, x)
             => PayloadParentId(Marshal(data'[p])) = x]_vars

\* C38 amended: when CreateCase returns an identifier the session Case-ID is
\* that identifier; the Case-ID changes only in a SetCaseID or in the return
\* of a CreateCase, of any caller; and an EmailMessage called without a
\* ParentId sends, and GetCaseID returns, the session Case-ID as it is then,
\* whoever stored it, or, when another caller's CreateCase is storing at
\* that moment, possibly neither the old nor the new value.
C38_SessionCaseIDUsed ==
    [][/\ \A p \in Procs :
             /\ ReturnsNow(p, "CreateCase") /\ res'[p].id # ""
                   => caseID' = res'[p].id
             /\ dom'[p] = Frame("EmailMessage", "", "") /\ AtRest(p)
                   /\ caseID # ""
                   => PayloadParentId(Marshal(data'[p]))
                         \in {caseID} \cup
                             (IF OtherStores(p) THEN {TornID} ELSE {})
             /\ CalledNow(p, "GetCaseID")
                   => res'[p].id
                         \in {caseID} \cup
                             (IF OtherStores(p) THEN {TornID} ELSE {})
       /\ caseID' # caseID
             => \E q \in Procs :
                   \/ res'[q].call = Frame("SetCaseID", caseID', "")
                   \/ ReturnsNow(q, "CreateCase")]_vars

\* C38 witness: a caller whose CreateCase returned 500X has called
\* EmailMessage without a ParentId and its payload carries 500Y, which the
\* other caller has set in between
C38_Witness ==
    \E p \in Procs :
       /\ dom[p] = Frame("EmailMessage", "", "")
       /\ pc[p] = "gate"
       /\ PayloadParentId(Marshal(data[p])) = "500Y"
       /\ caseID = "500Y"
       /\ \E q \in Procs \ {p} : res[q].call = Frame("SetCaseID", "500Y", "")

=============================================================================
